---- MODULE Spec2Model ----
(***************************************************************************)
(* Exam timetable assignment engine of aayushhn123/Structured_trial.        *)
(*                                                                         *)
(* The model follows src/scheduling.py (primary scheduler, capacity        *)
(* validator, elective scheduler, gap-fill optimizer, elective relocation  *)
(* optimizer), src/utils.py (calendar, slot preference) and the two        *)
(* callers that chain them: app.py process_upload_and_generate and         *)
(* main.py process_timetable_generation.                                   *)
(*                                                                         *)
(* Dates.  A calendar day is a positive integer; day 1 is Monday           *)
(* 24-11-2025, so weekday(d) = (d-1) % 7 and weekday 6 is Sunday.  The      *)
(* 'Exam Date' column holds strings "dd-mm-yyyy"; they are modelled as     *)
(* the triple <<dd, mm, yyyy>> produced by Strftime, compared for order    *)
(* component by component, which is how the strings compare.               *)
(*                                                                         *)
(* Scale.  Student counts and the ceiling are small integers; only their   *)
(* sums and comparisons enter the code, so a ceiling of 2 or 3 seats       *)
(* stands for the slider's thousands.                                      *)
(*                                                                         *)
(* Subjects.  The 'Subject' column is "name - (module code)"; the model    *)
(* identifies a subject by its module code.                                *)
(*                                                                         *)
(* Names.  scheduling.py uses datetime and                                 *)
(* find_next_valid_day_for_electives without importing them; the model     *)
(* resolves them to datetime.datetime and to utils.py's function.          *)
(***************************************************************************)
EXTENDS Integers, Sequences, FiniteSets, TLC

VARIABLES
    df,                          \* the ingested offering records, in input order
    holidays,                    \* set of holiday days
    base_date,                   \* campaign start day
    end_date,                    \* campaign end day
    max_capacity,                \* per-session student ceiling
    path,                        \* which caller drives the pipeline: "app" or "main"
    pc,                          \* position of the pipeline
    examDate,                    \* row -> 'Exam Date' string
    timeSlot,                    \* row -> 'Time Slot' string
    unscheduled_units,           \* queue of atomic units (module codes)
    daily_scheduled_branch_sem,  \* date string -> set of cohort keys used that day
    session_capacity,            \* date string -> [morning, afternoon] totals
    current_date,                \* day cursor
    scheduling_day,              \* main-phase day counter
    extended_day,                \* extended-phase day counter
    exam_date,                   \* the day being filled
    loop_i,                      \* position of the running for-loop
    units_to_remove,             \* units placed by the running pass
    remaining_branch_sems,       \* cohort keys still unused today (phase B)
    is_valid,                    \* CapacityValidator verdict
    violations,                  \* CapacityValidator violation records
    sem_dict,                    \* semester -> rows of that semester, in frame order
    gap_work,                    \* rows the gap-fill pass iterates, in order
    gap_moves_made,              \* gap-fill move count
    original_span,               \* span computed at the start of gap-fill
    oe_moves_made,               \* elective relocation move count
    pre_gap,                     \* history: examDate when gap-fill started
    pre_oe,                      \* history: <<examDate, timeSlot>> when relocation started
    run,                         \* which run on the same input this is (1 or 2)
    first_run                    \* outcome of the first run, kept for the second

vars == <<df, holidays, base_date, end_date, max_capacity, path, pc, examDate,
          timeSlot, unscheduled_units, daily_scheduled_branch_sem,
          session_capacity, current_date, scheduling_day, extended_day,
          exam_date, loop_i, units_to_remove, remaining_branch_sems, is_valid,
          violations, sem_dict, gap_work, gap_moves_made, original_span,
          oe_moves_made, pre_gap, pre_oe, run, first_run>>

----------------------------------------------------------------------------
(* Bounds of the model and constants of the program *)

MaxRows == 6
MaxCrowd == 16
MaxSpread == 9
target_days == 15
extended_limit == 25
auto_correct_days == 30
Sunday == 6

Morning == "10:00 AM - 1:00 PM"
Afternoon == "2:00 PM - 5:00 PM"
NoSlot == ""

None == 0
NoDateStr == <<>>
OutOfRangeStr == <<0, 0, 0>>

----------------------------------------------------------------------------
(* Generic helpers *)

SeqToSet(s) == {s[k] : k \in 1..Len(s)}

Max(S) == CHOOSE x \in S : \A y \in S : y <= x
Min(S) == CHOOSE x \in S : \A y \in S : x <= y

RECURSIVE SumOver(_, _)
SumOver(f, S) ==
    IF S = {} THEN 0
    ELSE LET x == CHOOSE y \in S : TRUE IN f[x] + SumOver(f, S \ {x})

\* variant: nothing is removed
RemoveNone(s, r) == s

\* Remove from the list s every element of the list r (list.remove per element;
\* the elements of a queue are distinct).
RemoveAll(s, r) == SelectSeq(s, LAMBDA x : x \notin SeqToSet(r))

\* The elements of S listed in increasing order of a strict total order.
SortBy(S, Less(_, _)) ==
    [k \in 1..Cardinality(S) |->
        CHOOSE x \in S : Cardinality({y \in S : Less(y, x)}) = k - 1]

----------------------------------------------------------------------------
(* Calendar: datetime arithmetic and src/utils.py *)

weekday(d) == (d - 1) % 7

\* strftime("%d-%m-%Y") for day 1 = 24-11-2025
Strftime(d) ==
    IF d <= 7 THEN <<23 + d, 11, 2025>>
    ELSE IF d <= 38 THEN <<d - 7, 12, 2025>>
    ELSE <<d - 38, 1, 2026>>

\* datetime.strptime(s, "%d-%m-%Y")
Strptime(s) ==
    IF s[3] = 2026 THEN s[1] + 38
    ELSE IF s[2] = 12 THEN s[1] + 7
    ELSE s[1] - 23

\* order of two "dd-mm-yyyy" strings as strings
StrLess(a, b) ==
    \/ a[1] < b[1]
    \/ a[1] = b[1] /\ a[2] < b[2]
    \/ a[1] = b[1] /\ a[2] = b[2] /\ a[3] < b[3]

IsDateStr(s) == s # NoDateStr /\ s # OutOfRangeStr

\* variant: a string that is not a Timestamp is returned empty
normalize_date_blank(s) == NoDateStr

\* normalize_date_to_ddmmyyyy: "" stays "", a dd-mm-yyyy string is parsed and
\* formatted again, anything unparsable is returned as it is
normalize_date_to_ddmmyyyy(s) ==
    IF s = NoDateStr THEN NoDateStr
    ELSE IF s = OutOfRangeStr THEN OutOfRangeStr
    ELSE Strftime(Strptime(s))

\* variant: only holidays are skipped
IsValidDay_no_rest(d, holidays_set) == d \notin holidays_set

IsValidDay(d, holidays_set) == weekday(d) # Sunday /\ d \notin holidays_set

\* variant: the start day is returned without being tested
find_next_valid_day_untested(start_date, end, holidays_set) ==
    IF start_date > end THEN None ELSE start_date

RECURSIVE find_next_valid_day_in_range(_, _, _)
find_next_valid_day_in_range(start_date, end, holidays_set) ==
    IF start_date > end THEN None
    ELSE IF IsValidDay(start_date, holidays_set) THEN start_date
    ELSE find_next_valid_day_in_range(start_date + 1, end, holidays_set)

\* variant: the start day is returned without being tested
find_next_valid_day_for_electives_untested(start_date, holidays_set) == start_date

RECURSIVE find_next_valid_day_for_electives(_, _)
find_next_valid_day_for_electives(start_date, holidays_set) ==
    IF IsValidDay(start_date, holidays_set) THEN start_date
    ELSE find_next_valid_day_for_electives(start_date + 1, holidays_set)

\* variant: odd semesters in the morning, even semesters in the afternoon
get_preferred_slot_by_parity(semester) ==
    IF semester % 2 # 0 THEN Morning ELSE Afternoon

get_preferred_slot(semester) ==
    IF semester % 2 # 0
    THEN (IF ((semester + 1) \div 2) % 2 = 1 THEN Morning ELSE Afternoon)
    ELSE (IF (semester \div 2) % 2 = 1 THEN Morning ELSE Afternoon)

alternate_slot(time_slot) == IF time_slot = Morning THEN Afternoon ELSE Morning

----------------------------------------------------------------------------
(* Offering records and the frames the callers build from them *)

Rows == 1..Len(df)
HasOE(r) == df[r].oe # ""

\* read_timetable: df_non = Category != INTD, df_ele = Category == INTD
NonElecRows == {r \in Rows : df[r].cat # "INTD"}
EleRows == {r \in Rows : df[r].cat = "INTD"}

\* rows the primary scheduler works on
EligibleRows == {r \in NonElecRows : ~HasOE(r)}

BranchSem(r) == <<df[r].br, df[r].sem>>

----------------------------------------------------------------------------
(* Atomic subject units: schedule_all_subjects_comprehensively, step 2 *)

UnitCodes == {df[r].mod : r \in EligibleRows}

all_rows(m) == {r \in EligibleRows : df[r].mod = m}
first_row(m) == Min(all_rows(m))
branch_sem_combinations(m) == {BranchSem(r) : r \in all_rows(m)}
unique_branches(m) == {df[r].br : r \in all_rows(m)}
unique_semesters(m) == {df[r].sem : r \in all_rows(m)}
all_branch_sem_combinations == {BranchSem(r) : r \in EligibleRows}

frequency(m) == Cardinality(branch_sem_combinations(m))

\* group['CommonAcrossSems'].iloc[0], group['IsCommon'].iloc[0] == 'YES'
is_common_across(m) == df[first_row(m)].cas
is_common_within(m) == df[first_row(m)].ic = "YES"
is_common(m) == is_common_across(m) \/ is_common_within(m) \/ frequency(m) > 1

cross_semester_span(m) == Cardinality(unique_semesters(m)) > 1
cross_branch_span(m) == Cardinality(unique_branches(m)) > 1

\* variant: no bonus for spanning several branches
priority_score_no_branch_bonus(m) ==
    frequency(m) * 10
    + (IF is_common_across(m) THEN 50
       ELSE IF is_common_within(m) THEN 25
       ELSE IF frequency(m) > 1 THEN 15 ELSE 0)
    + (IF cross_semester_span(m) THEN 15 ELSE 0)

priority_score(m) ==
    frequency(m) * 10
    + (IF is_common_across(m) THEN 50
       ELSE IF is_common_within(m) THEN 25
       ELSE IF frequency(m) > 1 THEN 15 ELSE 0)
    + (IF cross_semester_span(m) THEN 15 ELSE 0)
    + (IF cross_branch_span(m) THEN 10 ELSE 0)

\* sorted(atomic_subject_units.values(), key=priority_score, reverse=True): the
\* dict is filled in groupby order (ascending module code) and the sort is
\* stable, so equal scores stay in ascending module code
QueueBefore(a, b) ==
    \/ priority_score(a) > priority_score(b)
    \/ priority_score(a) = priority_score(b) /\ a < b

sorted_atomic_units == SortBy(UnitCodes, QueueBefore)

InVeryHigh(m) == is_common_across(m) \/ frequency(m) >= 8
InHigh(m) == is_common_within(m) /\ ~InVeryHigh(m)
InMedium(m) == frequency(m) >= 2 /\ ~InVeryHigh(m) /\ ~InHigh(m)
InLow(m) == ~InVeryHigh(m) /\ ~InHigh(m) /\ ~InMedium(m)

very_high_priority == SelectSeq(sorted_atomic_units, InVeryHigh)
high_priority == SelectSeq(sorted_atomic_units, InHigh)
medium_priority == SelectSeq(sorted_atomic_units, InMedium)
low_priority == SelectSeq(sorted_atomic_units, InLow)

\* variant: the queue is the score order alone, without bands
master_queue_by_score == sorted_atomic_units

master_queue == very_high_priority \o high_priority \o medium_priority \o low_priority

\* variant: only the first row of the unit is counted
total_students_first_row(m) == df[first_row(m)].cnt

\* total_students of a unit: sum of StudentCount over all_rows
total_students(m) == SumOver([r \in Rows |-> df[r].cnt], all_rows(m))

\* phase A: max(semester_counts.keys())
preferred_semester_main(m) == Max(unique_semesters(m))

\* phase B and extended phase: unique_semesters[0], the first element of
\* list(set(...)); CPython lists a set of small integers (below 8) in ascending
\* order
\* variant: the order of the set differs from one run to the next
preferred_semester_by_run(m) ==
    IF run = 1 THEN Min(unique_semesters(m)) ELSE Max(unique_semesters(m))

preferred_semester_first(m) == Min(unique_semesters(m))

----------------------------------------------------------------------------
(* Session capacity tracker: the closures of schedule_all_subjects_comprehensively *)

session_type(time_slot) == IF time_slot = Morning THEN "morning" ELSE "afternoon"

\* the entry a query or an update creates when the date is new
Touch(sc, ds) ==
    IF ds \in DOMAIN sc THEN sc ELSE sc @@ (ds :> [morning |-> 0, afternoon |-> 0])

get_session_capacity(sc, ds, time_slot) == Touch(sc, ds)[ds][session_type(time_slot)]

\* variant: the students of a placed unit are not added to the tracker
add_to_session_capacity_nothing(sc, ds, time_slot, student_count) == Touch(sc, ds)

add_to_session_capacity(sc, ds, time_slot, student_count) ==
    [Touch(sc, ds) EXCEPT ![ds][session_type(time_slot)] = @ + student_count]

\* variant: a unit that would fill the session exactly is refused
can_fit_strictly_below(sc, ds, time_slot, student_count) ==
    get_session_capacity(sc, ds, time_slot) + student_count < max_capacity

\* variant: every session admits every unit
can_fit_always(sc, ds, time_slot, student_count) == TRUE

can_fit_in_session(sc, ds, time_slot, student_count) ==
    get_session_capacity(sc, ds, time_slot) + student_count <= max_capacity

\* variant: a unit that neither session admits is placed in its preferred slot
SlotWithoutSkip(sc, ds, time_slot, student_count) ==
    IF can_fit_in_session(sc, ds, time_slot, student_count) THEN time_slot
    ELSE IF can_fit_in_session(sc, ds, alternate_slot(time_slot), student_count)
         THEN alternate_slot(time_slot)
         ELSE time_slot

\* variant: the other slot is never tried
SlotPreferredOnly(sc, ds, time_slot, student_count) ==
    IF can_fit_in_session(sc, ds, time_slot, student_count) THEN time_slot ELSE NoSlot

\* the slot a unit gets under the capacity rule, NoSlot when it is skipped
\* ("continue") because neither session admits it
SlotUnderCapacity(sc, ds, time_slot, student_count) ==
    IF can_fit_in_session(sc, ds, time_slot, student_count) THEN time_slot
    ELSE IF can_fit_in_session(sc, ds, alternate_slot(time_slot), student_count)
         THEN alternate_slot(time_slot)
         ELSE NoSlot

\* variant: a unit conflicts as soon as any cohort is used on the day
Conflicts_any_used(m, used) == used # {}

\* variant: the cohort conflict test switched off
Conflicts_off(m, used) == FALSE

\* conflict test of a unit against the cohort keys used on a day
Conflicts(m, used) == \E k \in branch_sem_combinations(m) : k \in used

\* variant: only one row of the unit is written
Stamp_one(col, rows, v) ==
    IF rows = {} THEN col
    ELSE [col EXCEPT ![CHOOSE r \in rows : \A q \in rows : r <= q] = v]

Stamp(col, rows, v) == [r \in DOMAIN col |-> IF r \in rows THEN v ELSE col[r]]

DateStr == Strftime(exam_date)

----------------------------------------------------------------------------
(* Inputs *)

Row(m, b, s, c, cat, oe, cas, ic) ==
    [mod |-> m, br |-> b, sem |-> s, cnt |-> c, cat |-> cat, oe |-> oe,
     cas |-> cas, ic |-> ic]

\* The offering records an input is drawn from; an input is any sub-list of at
\* most MaxRows of them, in this order.
Catalog == <<
    Row(3, "A", 1, 2, "COMP", "", FALSE, "NO"),
    Row(1, "B", 1, 2, "COMP", "", FALSE, "NO"),
    Row(2, "A", 3, 2, "COMP", "", FALSE, "YES"),
    Row(4, "C", 3, 2, "COMP", "", FALSE, "NO"),
    Row(5, "B", 3, 1, "COMP", "", FALSE, "NO"),
    Row(1, "A", 3, 1, "COMP", "", TRUE, "YES"),
    Row(7, "A", 1, 1, "INTD", "OE1", FALSE, "NO"),
    Row(8, "B", 1, 1, "INTD", "OE2", FALSE, "NO"),
    Row(9, "C", 3, 2, "INTD", "OE5", FALSE, "YES") >>

\* campaign start, campaign end, holidays and per-session ceiling
LongCampaigns == {
    [base |-> 1, end |-> 36, hol |-> {}, max |-> 2],
    [base |-> 6, end |-> 36, hol |-> {9}, max |-> 3] }

Campaigns == LongCampaigns \cup {
    [base |-> 1, end |-> 3, hol |-> {2}, max |-> 2],
    [base |-> 6, end |-> 7, hol |-> {6}, max |-> 3],
    [base |-> 6, end |-> 6, hol |-> {9}, max |-> 3] }

SubList(S) == LET order == SortBy(S, LAMBDA a, b : a < b)
              IN [k \in 1..Cardinality(S) |-> Catalog[order[k]]]

\* A crowded cohort: k single-cohort subjects of one (branch, semester), which
\* need k days, optionally followed by the two offerings of module 1.
CrowdRows(k) == [i \in 1..k |-> Row(10 + i, "A", 3, 1, "COMP", "", FALSE, "YES")]
CrowdTails == {<<>>, <<Catalog[2], Catalog[6]>>}

\* A spread upload: k single-offering subjects of k different branches, two
\* students each, which the ceiling spreads over the days two by two, followed
\* by one OE1 and one OE2 offering.
SpreadBranches == <<"D", "E", "F", "G", "H", "I", "J", "K", "L", "M">>
SpreadRows(k) ==
    [i \in 1..k |-> Row(20 + i, SpreadBranches[i], 3, 2, "COMP", "", FALSE, "NO")]
    \o <<Row(7, "A", 1, 1, "INTD", "OE1", FALSE, "YES"),
         Row(8, "B", 1, 1, "INTD", "OE2", FALSE, "YES")>>

\* A tight ceiling: five single-offering subjects, the first and the last of one
\* cohort, which a ceiling of two students spreads over three days, the last
\* subject passing a day on which its cohort is idle.
TightRows == <<
    Row(31, "A", 1, 2, "COMP", "", FALSE, "NO"),
    Row(32, "B", 1, 2, "COMP", "", FALSE, "NO"),
    Row(33, "C", 1, 2, "COMP", "", FALSE, "NO"),
    Row(34, "D", 1, 2, "COMP", "", FALSE, "NO"),
    Row(35, "A", 1, 1, "COMP", "", FALSE, "NO") >>

\* the long campaigns, one that starts on a Saturday without holidays, and one
\* that starts on a Sunday followed by a holiday
TightCampaigns == LongCampaigns \cup {
    [base |-> 6, end |-> 36, hol |-> {}, max |-> 2],
    [base |-> 7, end |-> 36, hol |-> {8}, max |-> 2] }

\* A wide upload: one subject taken by MaxWide branches of one semester, one
\* subject common across semesters, and the subjects of the catalogue that are
\* common within a semester, shared by two cohorts, and plain.
MaxWide == 8
WideBranches == <<"D", "E", "F", "G", "H", "I", "J", "K", "L">>
WideRows ==
    [i \in 1..MaxWide |->
        Row(50, WideBranches[i], 1, IF i = 1 THEN 1 ELSE 0, "COMP", "", FALSE, "NO")]
    \o <<Row(51, "A", 5, 1, "COMP", "", TRUE, "YES"),
         Catalog[3], Catalog[2], Catalog[6], Catalog[1]>>

EmptyMap == [x \in {} |-> 0]

Init ==
    /\ \/ \E S \in SUBSET (1..Len(Catalog)), c \in Campaigns :
             /\ Cardinality(S) <= MaxRows
             /\ df = SubList(S)
             /\ base_date = c.base
             /\ end_date = c.end
             /\ holidays = c.hol
             /\ max_capacity = c.max
       \/ \E k \in target_days..MaxCrowd, tail \in CrowdTails, c \in LongCampaigns :
             /\ df = CrowdRows(k) \o tail
             /\ base_date = c.base
             /\ end_date = c.end
             /\ holidays = c.hol
             /\ max_capacity = c.max
       \/ \E c \in LongCampaigns :
             /\ df = SpreadRows(MaxSpread)
             /\ base_date = c.base
             /\ end_date = c.end
             /\ holidays = c.hol
             /\ max_capacity = c.max
       \/ \E c \in LongCampaigns :
             /\ df = WideRows
             /\ base_date = c.base
             /\ end_date = c.end
             /\ holidays = c.hol
             /\ max_capacity = c.max
       \/ \E c \in TightCampaigns :
             /\ df = TightRows
             /\ base_date = c.base
             /\ end_date = c.end
             /\ holidays = c.hol
             /\ max_capacity = c.max
    /\ path = "none"
    /\ pc = "idle"
    /\ examDate = [r \in 1..Len(df) |-> NoDateStr]
    /\ timeSlot = [r \in 1..Len(df) |-> NoSlot]
    /\ unscheduled_units = <<>>
    /\ daily_scheduled_branch_sem = EmptyMap
    /\ session_capacity = EmptyMap
    /\ current_date = None
    /\ scheduling_day = 0
    /\ extended_day = 0
    /\ exam_date = None
    /\ loop_i = 0
    /\ units_to_remove = <<>>
    /\ remaining_branch_sems = {}
    /\ is_valid = TRUE
    /\ violations = {}
    /\ sem_dict = EmptyMap
    /\ gap_work = <<>>
    /\ gap_moves_made = 0
    /\ original_span = 0
    /\ oe_moves_made = 0
    /\ pre_gap = EmptyMap
    /\ pre_oe = EmptyMap
    /\ run = 1
    /\ first_run = <<>>

inputVars == <<df, holidays, base_date, end_date, max_capacity>>
runVars == <<run, first_run>>
postVars == <<is_valid, violations, sem_dict, gap_work, gap_moves_made,
              original_span, oe_moves_made, pre_gap, pre_oe>>

----------------------------------------------------------------------------
(* PrimaryScheduler: schedule_all_subjects_comprehensively *)

\* The two callers, app.py process_upload_and_generate and main.py
\* process_timetable_generation, run the same code on the same state from the
\* call of the scheduler to the capacity validation; the model runs that
\* stretch once and records the caller in path where the two differ.

\* app.py configure_sidebar: an end date that is not after the start date is
\* replaced by the start date plus 30 days before anything runs
configure_sidebar ==
    /\ pc = "idle"
    /\ end_date <= base_date
    /\ end_date' = base_date + auto_correct_days
    /\ UNCHANGED <<df, holidays, base_date, max_capacity, runVars, postVars, path,
                   pc, examDate, timeSlot, unscheduled_units,
                   daily_scheduled_branch_sem, session_capacity, current_date,
                   scheduling_day, extended_day, exam_date, loop_i, units_to_remove,
                   remaining_branch_sems>>

\* app.py: "if df_non_elec is not None and not df_non_elec.empty ... else" error
AppReject ==
    /\ pc = "idle"
    /\ end_date > base_date
    /\ NonElecRows = {}
    /\ pc' = "error"
    /\ path' = "app"
    /\ UNCHANGED <<inputVars, runVars, postVars, examDate, timeSlot, unscheduled_units,
                   daily_scheduled_branch_sem, session_capacity, current_date,
                   scheduling_day, extended_day, exam_date, loop_i, units_to_remove,
                   remaining_branch_sems>>

\* main.py: "if end_date <= base_date" error
MainReject ==
    /\ pc = "idle"
    /\ end_date <= base_date
    /\ pc' = "error"
    /\ path' = "main"
    /\ UNCHANGED <<inputVars, runVars, postVars, examDate, timeSlot, unscheduled_units,
                   daily_scheduled_branch_sem, session_capacity, current_date,
                   scheduling_day, extended_day, exam_date, loop_i, units_to_remove,
                   remaining_branch_sems>>

\* the call of schedule_all_subjects_comprehensively by either caller, and the
\* scheduler's steps 1-3 up to the main loop
EnterScheduler ==
    /\ pc = "idle"
    /\ end_date > base_date
    /\ IF EligibleRows = {}
       THEN /\ pc' = "returned"
            /\ UNCHANGED <<unscheduled_units, current_date, scheduling_day>>
       ELSE /\ pc' = "main_loop"
            /\ unscheduled_units' = master_queue
            /\ current_date' = base_date
            /\ scheduling_day' = 0
    /\ UNCHANGED <<inputVars, runVars, postVars, path, examDate, timeSlot,
                   daily_scheduled_branch_sem, session_capacity, extended_day,
                   exam_date, loop_i, units_to_remove, remaining_branch_sems>>

\* variant: the search starts on the day after start_date
find_next_valid_day_after(start_date, holidays_set) ==
    find_next_valid_day_in_range(start_date + 1, end_date, holidays_set)

\* the scheduler's closure over end_date
find_next_valid_day(start_date, holidays_set) ==
    find_next_valid_day_in_range(start_date, end_date, holidays_set)

\* variant: the main loop has no day budget
main_loop_unbudgeted == unscheduled_units # <<>>

\* "while scheduling_day < target_days and unscheduled_units"
main_loop_continues == scheduling_day < target_days /\ unscheduled_units # <<>>

\* variant: the extended loop without its day budget
extended_loop_unbudgeted == unscheduled_units # <<>>

\* "while unscheduled_units and extended_day < 25"
extended_loop_continues == unscheduled_units # <<>> /\ extended_day < extended_limit

\* head of the main loop: the next valid day, or the end of the main phase
MainLoopHead ==
    /\ pc = "main_loop"
    /\ LET next_day == find_next_valid_day(current_date, holidays)
       IN IF main_loop_continues /\ next_day # None
          THEN /\ exam_date' = next_day
               /\ scheduling_day' = scheduling_day + 1
               /\ daily_scheduled_branch_sem' =
                     IF Strftime(next_day) \in DOMAIN daily_scheduled_branch_sem
                     THEN daily_scheduled_branch_sem
                     ELSE daily_scheduled_branch_sem @@ (Strftime(next_day) :> {})
               /\ loop_i' = 1
               /\ units_to_remove' = <<>>
               /\ pc' = "phaseA"
          ELSE /\ pc' = "ext_check"
               /\ UNCHANGED <<exam_date, scheduling_day, daily_scheduled_branch_sem,
                              loop_i, units_to_remove>>
    /\ UNCHANGED <<inputVars, runVars, postVars, path, examDate, timeSlot, unscheduled_units,
                   session_capacity, current_date, extended_day,
                   remaining_branch_sems>>

\* the placement the three passes share: stamp every row of the unit, mark its
\* cohort keys used, add its students to the session, remember it for removal
Place(m, keys, time_slot) ==
    /\ examDate' = Stamp(examDate, all_rows(m), DateStr)
    /\ timeSlot' = Stamp(timeSlot, all_rows(m), time_slot)
    /\ daily_scheduled_branch_sem' =
          [daily_scheduled_branch_sem EXCEPT ![DateStr] = @ \cup keys]
    /\ session_capacity' =
          add_to_session_capacity(session_capacity, DateStr, time_slot, total_students(m))
    /\ units_to_remove' = Append(units_to_remove, m)

\* a unit that is looked at and not placed because no session admits it; the
\* capacity queries still create the day's entry of the tracker
SkipForCapacity ==
    /\ session_capacity' = Touch(session_capacity, DateStr)
    /\ UNCHANGED <<examDate, timeSlot, daily_scheduled_branch_sem, units_to_remove>>

\* phase A, one iteration of "for atomic_unit in unscheduled_units"
PhaseAStep ==
    /\ pc = "phaseA"
    /\ loop_i <= Len(unscheduled_units)
    /\ LET m == unscheduled_units[loop_i]
           slot == SlotUnderCapacity(session_capacity, DateStr,
                                     get_preferred_slot(preferred_semester_main(m)),
                                     total_students(m))
       IN IF Conflicts(m, daily_scheduled_branch_sem[DateStr])
          THEN UNCHANGED <<examDate, timeSlot, daily_scheduled_branch_sem,
                           session_capacity, units_to_remove>>
          ELSE IF slot = NoSlot
               THEN SkipForCapacity
               ELSE Place(m, branch_sem_combinations(m), slot)
    /\ loop_i' = loop_i + 1
    /\ UNCHANGED <<inputVars, runVars, postVars, path, pc, unscheduled_units, current_date,
                   scheduling_day, extended_day, exam_date, remaining_branch_sems>>

\* end of phase A: remove the placed units, compute the cohort keys left today
PhaseAEnd ==
    /\ pc = "phaseA"
    /\ loop_i > Len(unscheduled_units)
    /\ unscheduled_units' = RemoveAll(unscheduled_units, units_to_remove)
    /\ remaining_branch_sems' =
          all_branch_sem_combinations \ daily_scheduled_branch_sem[DateStr]
    /\ pc' = IF remaining_branch_sems' # {} THEN "phaseB" ELSE "day_end"
    /\ loop_i' = 1
    /\ units_to_remove' = <<>>
    /\ UNCHANGED <<inputVars, runVars, postVars, path, examDate, timeSlot,
                   daily_scheduled_branch_sem, session_capacity, current_date,
                   scheduling_day, extended_day, exam_date>>

\* phase B, one iteration of "for atomic_unit in unscheduled_units.copy()"
PhaseBStep ==
    /\ pc = "phaseB"
    /\ loop_i <= Len(unscheduled_units)
    /\ LET m == unscheduled_units[loop_i]
           unit_branch_sem == CHOOSE k \in branch_sem_combinations(m) : TRUE
           slot == SlotUnderCapacity(session_capacity, DateStr,
                                     get_preferred_slot(preferred_semester_first(m)),
                                     total_students(m))
       IN IF frequency(m) = 1 /\ unit_branch_sem \in remaining_branch_sems
          THEN IF slot = NoSlot
               THEN /\ SkipForCapacity
                    /\ UNCHANGED remaining_branch_sems
               ELSE /\ Place(m, {unit_branch_sem}, slot)
                    /\ remaining_branch_sems' = remaining_branch_sems \ {unit_branch_sem}
          ELSE UNCHANGED <<examDate, timeSlot, daily_scheduled_branch_sem,
                           session_capacity, units_to_remove, remaining_branch_sems>>
    /\ loop_i' = loop_i + 1
    /\ UNCHANGED <<inputVars, runVars, postVars, path, pc, unscheduled_units, current_date,
                   scheduling_day, extended_day, exam_date>>

\* end of phase B: remove additional_fills
PhaseBEnd ==
    /\ pc = "phaseB"
    /\ loop_i > Len(unscheduled_units)
    /\ unscheduled_units' = RemoveAll(unscheduled_units, units_to_remove)
    /\ pc' = "day_end"
    /\ UNCHANGED <<inputVars, runVars, postVars, path, examDate, timeSlot,
                   daily_scheduled_branch_sem, session_capacity, current_date,
                   scheduling_day, extended_day, exam_date, loop_i, units_to_remove,
                   remaining_branch_sems>>

\* end of a main-phase day: capacity display, break when the queue is empty,
\* otherwise advance the day cursor
MainDayEnd ==
    /\ pc = "day_end"
    /\ session_capacity' = Touch(session_capacity, DateStr)
    /\ IF unscheduled_units = <<>>
       THEN /\ pc' = "ext_check"
            /\ UNCHANGED current_date
       ELSE /\ pc' = "main_loop"
            /\ current_date' = exam_date + 1
    /\ UNCHANGED <<inputVars, runVars, postVars, path, examDate, timeSlot, unscheduled_units,
                   daily_scheduled_branch_sem, scheduling_day, extended_day,
                   exam_date, loop_i, units_to_remove, remaining_branch_sems>>

\* step 4: "if unscheduled_units: extended_day = scheduling_day"
ExtendedCheck ==
    /\ pc = "ext_check"
    /\ IF unscheduled_units # <<>>
       THEN /\ extended_day' = scheduling_day
            /\ pc' = "ext_loop"
       ELSE /\ pc' = "returned"
            /\ UNCHANGED extended_day
    /\ UNCHANGED <<inputVars, runVars, postVars, path, examDate, timeSlot, unscheduled_units,
                   daily_scheduled_branch_sem, session_capacity, current_date,
                   scheduling_day, exam_date, loop_i, units_to_remove,
                   remaining_branch_sems>>

\* head of the extended loop: the next valid day, or the return
ExtLoopHead ==
    /\ pc = "ext_loop"
    /\ LET next_day == find_next_valid_day(current_date, holidays)
       IN IF extended_loop_continues /\ next_day # None
          THEN /\ exam_date' = next_day
               /\ extended_day' = extended_day + 1
               /\ daily_scheduled_branch_sem' =
                     IF Strftime(next_day) \in DOMAIN daily_scheduled_branch_sem
                     THEN daily_scheduled_branch_sem
                     ELSE daily_scheduled_branch_sem @@ (Strftime(next_day) :> {})
               /\ loop_i' = 1
               /\ units_to_remove' = <<>>
               /\ pc' = "ext_pass"
          ELSE /\ pc' = "returned"
               /\ UNCHANGED <<exam_date, extended_day, daily_scheduled_branch_sem,
                              loop_i, units_to_remove>>
    /\ UNCHANGED <<inputVars, runVars, postVars, path, examDate, timeSlot, unscheduled_units,
                   session_capacity, current_date, scheduling_day,
                   remaining_branch_sems>>

\* extended phase, one iteration of "for atomic_unit in unscheduled_units.copy()"
ExtStep ==
    /\ pc = "ext_pass"
    /\ loop_i <= Len(unscheduled_units)
    /\ LET m == unscheduled_units[loop_i]
           slot == SlotUnderCapacity(session_capacity, DateStr,
                                     get_preferred_slot(preferred_semester_first(m)),
                                     total_students(m))
       IN IF Conflicts(m, daily_scheduled_branch_sem[DateStr])
          THEN UNCHANGED <<examDate, timeSlot, daily_scheduled_branch_sem,
                           session_capacity, units_to_remove>>
          ELSE IF slot = NoSlot
               THEN SkipForCapacity
               ELSE Place(m, branch_sem_combinations(m), slot)
    /\ loop_i' = loop_i + 1
    /\ UNCHANGED <<inputVars, runVars, postVars, path, pc, unscheduled_units, current_date,
                   scheduling_day, extended_day, exam_date, remaining_branch_sems>>

\* end of an extended day: remove units_scheduled_today, advance the day cursor
ExtDayEnd ==
    /\ pc = "ext_pass"
    /\ loop_i > Len(unscheduled_units)
    /\ unscheduled_units' = RemoveAll(unscheduled_units, units_to_remove)
    /\ current_date' = exam_date + 1
    /\ pc' = "ext_loop"
    /\ UNCHANGED <<inputVars, runVars, postVars, path, examDate, timeSlot,
                   daily_scheduled_branch_sem, session_capacity, scheduling_day,
                   extended_day, exam_date, loop_i, units_to_remove,
                   remaining_branch_sems>>

----------------------------------------------------------------------------
(* CapacityValidator: validate_capacity_constraints *)

\* the (Exam Date, Time Slot) groups of a frame that carry a real date
SessionsOf(rows, dates, slots) ==
    {<<dates[r], slots[r]>> : r \in {q \in rows : IsDateStr(dates[q])}}

SessionRows(rows, dates, slots, ses) ==
    {r \in rows : dates[r] = ses[1] /\ slots[r] = ses[2]}

SessionTotal(rows, dates, slots, ses) ==
    SumOver([r \in Rows |-> df[r].cnt], SessionRows(rows, dates, slots, ses))

\* variant: a session that holds exactly the ceiling is reported as well
validate_capacity_at_ceiling(rows, dates, slots, max) ==
    {[date |-> ses[1], time_slot |-> ses[2],
      student_count |-> SessionTotal(rows, dates, slots, ses),
      excess |-> SessionTotal(rows, dates, slots, ses) - max,
      subjects_count |-> Cardinality(SessionRows(rows, dates, slots, ses))] :
        ses \in {x \in SessionsOf(rows, dates, slots) :
                    SessionTotal(rows, dates, slots, x) >= max}}

validate_capacity_constraints(rows, dates, slots, max) ==
    {[date |-> ses[1], time_slot |-> ses[2],
      student_count |-> SessionTotal(rows, dates, slots, ses),
      excess |-> SessionTotal(rows, dates, slots, ses) - max,
      subjects_count |-> Cardinality(SessionRows(rows, dates, slots, ses))] :
        ses \in {x \in SessionsOf(rows, dates, slots) :
                    SessionTotal(rows, dates, slots, x) > max}}

\* the caller builds sem_dict_temp from df_scheduled and validates it; pd.concat
\* of an empty dict raises, which the caller's except turns into an error
Validate ==
    /\ pc = "returned"
    /\ IF NonElecRows = {}
       THEN /\ pc' = "error"
            /\ path' = "main"
            /\ UNCHANGED <<is_valid, violations>>
       ELSE /\ violations' =
                  validate_capacity_constraints(NonElecRows, examDate, timeSlot, max_capacity)
            /\ is_valid' = (violations' = {})
            /\ pc' = "electives"
            /\ UNCHANGED path
    /\ UNCHANGED <<inputVars, runVars, examDate, timeSlot, unscheduled_units,
                   daily_scheduled_branch_sem, session_capacity, current_date,
                   scheduling_day, extended_day, exam_date, loop_i, units_to_remove,
                   remaining_branch_sems, sem_dict, gap_work, gap_moves_made,
                   original_span, oe_moves_made, pre_gap, pre_oe>>

----------------------------------------------------------------------------
(* ElectiveScheduler: schedule_electives_globally, and the callers' handling *)

\* max of pd.to_datetime(df_scheduled['Exam Date'], errors='coerce').dropna()
DatedNonElec == {r \in NonElecRows : IsDateStr(examDate[r])}
max_non_elec_date ==
    IF DatedNonElec = {} THEN None
    ELSE Max({Strptime(examDate[r]) : r \in DatedNonElec})

\* variant: the search for day 1 starts on the latest non-elective date itself
elective_day1_same_day(max_date) == find_next_valid_day_for_electives(max_date, holidays)

elective_day1(max_date) == find_next_valid_day_for_electives(max_date + 1, holidays)

elective_day2_next_day(max_date) == elective_day1(max_date) + 1

elective_day2(max_date) ==
    find_next_valid_day_for_electives(elective_day1(max_date) + 1, holidays)

IsOE1OE5(r) == df[r].oe \in {"OE1", "OE5"}
IsOE2(r) == df[r].oe = "OE2"

\* the 'Exam Date' and 'Time Slot' columns after schedule_electives_globally
ElectiveDates(dates, max_date) ==
    [r \in DOMAIN dates |->
        IF r \in EleRows /\ IsOE1OE5(r) THEN Strftime(elective_day1(max_date))
        ELSE IF r \in EleRows /\ IsOE2(r) THEN Strftime(elective_day2(max_date))
        ELSE dates[r]]

ElectiveSlots(slots) ==
    [r \in DOMAIN slots |->
        IF r \in EleRows /\ IsOE1OE5(r) THEN Morning
        ELSE IF r \in EleRows /\ IsOE2(r) THEN Afternoon
        ELSE slots[r]]

\* position of a row in pd.concat([df_scheduled, df_ele_scheduled])
FramePos(r) == IF r \in NonElecRows THEN r ELSE Len(df) + r

\* successfully_scheduled.sort_values(["Semester", "Exam Date"]): a stable sort,
\* the dates compared as strings
FrameBefore(dates, a, b) ==
    \/ df[a].sem < df[b].sem
    \/ df[a].sem = df[b].sem /\ StrLess(dates[a], dates[b])
    \/ df[a].sem = df[b].sem /\ dates[a] = dates[b] /\ FramePos(a) < FramePos(b)

\* sem_dict of the rows of a frame that carry a real date
BuildSemDict(frame, dates) ==
    LET ok == {r \in frame : IsDateStr(dates[r])}
        sorted == SortBy(ok, LAMBDA a, b : FrameBefore(dates, a, b))
    IN [s \in {df[r].sem : r \in ok} |-> SelectSeq(sorted, LAMBDA r : df[r].sem = s)]

\* what both callers do once all_scheduled_subjects is known: filter, sort,
\* build sem_dict; an empty result ends the run with a warning
AfterElectives(frame, dates, slots) ==
    /\ examDate' = dates
    /\ timeSlot' = slots
    /\ IF \A r \in frame : ~IsDateStr(dates[r])
       THEN /\ pc' = "done"
            /\ UNCHANGED sem_dict
       ELSE /\ pc' = "gap_fill"
            /\ sem_dict' = BuildSemDict(frame, dates)

\* app.py: handle_electives, with the check of day 2 against the end date
AppElectives ==
    /\ pc = "electives"
    /\ NonElecRows # {}
    /\ path' = "app"
    /\ IF EleRows = {}
       THEN AfterElectives(NonElecRows, examDate, timeSlot)
       ELSE IF max_non_elec_date = None
            THEN /\ pc' = "error"
                 /\ UNCHANGED <<examDate, timeSlot, sem_dict>>
            ELSE IF elective_day2(max_non_elec_date) <= end_date
                 THEN AfterElectives(Rows, ElectiveDates(examDate, max_non_elec_date),
                                     ElectiveSlots(timeSlot))
                 ELSE AfterElectives(NonElecRows, examDate, timeSlot)
    /\ UNCHANGED <<inputVars, runVars, unscheduled_units, daily_scheduled_branch_sem,
                   session_capacity, current_date, scheduling_day, extended_day,
                   exam_date, loop_i, units_to_remove, remaining_branch_sems,
                   is_valid, violations, gap_work, gap_moves_made, original_span,
                   oe_moves_made, pre_gap, pre_oe>>

\* main.py: schedule_electives_globally whenever a non-elective date exists
MainElectives ==
    /\ pc = "electives"
    /\ end_date > base_date
    /\ path' = "main"
    /\ IF EleRows # {} /\ max_non_elec_date # None
       THEN AfterElectives(Rows, ElectiveDates(examDate, max_non_elec_date),
                           ElectiveSlots(timeSlot))
       ELSE AfterElectives(NonElecRows, examDate, timeSlot)
    /\ UNCHANGED <<inputVars, runVars, unscheduled_units, daily_scheduled_branch_sem,
                   session_capacity, current_date, scheduling_day, extended_day,
                   exam_date, loop_i, units_to_remove, remaining_branch_sems,
                   is_valid, violations, gap_work, gap_moves_made, original_span,
                   oe_moves_made, pre_gap, pre_oe>>

----------------------------------------------------------------------------
(* GapFillOptimizer: optimize_schedule_by_filling_gaps *)

Sems == DOMAIN sem_dict

\* pd.concat(sem_dict.values()): the semesters in ascending order
RECURSIVE ConcatSems(_, _)
ConcatSems(f, S) ==
    IF S = {} THEN <<>>
    ELSE f[Min(S)] \o ConcatSems(f, S \ {Min(S)})

AllData == ConcatSems(sem_dict, Sems)
AllDataRows == SeqToSet(AllData)

\* overall date span of a set of date strings: last - first + 1, in days
SpanOf(strs) ==
    IF strs = {} THEN 0
    ELSE Max({Strptime(x) : x \in strs}) - Min({Strptime(x) : x \in strs}) + 1

\* the rows of df_sem with CommonAcrossSems == False and IsCommon != 'YES'
IsUncommon(r) == df[r].cas = FALSE /\ df[r].ic # "YES"

\* the rows the nested loops visit: every semester in turn, its uncommon rows
\* in frame order
UncommonWork == SelectSeq(AllData, IsUncommon)

\* variant: the search for the gap starts at the first day of the calendar
gap_date_from_origin(r, dates) ==
    find_next_valid_day_in_range(1, Strptime(dates[r]) - 1, holidays)

\* find_next_valid_day_in_range(base_date, current_dt - timedelta(days=1), holidays)
gap_date(r, dates) ==
    find_next_valid_day_in_range(base_date, Strptime(dates[r]) - 1, holidays)

\* variant: the day is never tested for the row's Branch
GapIsFree_always(r, gap_str, dates) == TRUE

\* no row of the same semester frame is on gap_str with the row's Branch
GapIsFree(r, gap_str, dates) ==
    ~\E q \in SeqToSet(sem_dict[df[r].sem]) :
        dates[q] = gap_str /\ df[q].br = df[r].br

\* the loop body reaches the assignment for row r: the row has a date, an
\* earlier valid day exists and the mask on that day is empty
GapFillMoves(r, dates) ==
    /\ IsDateStr(dates[r])
    /\ gap_date(r, dates) # None
    /\ GapIsFree(r, Strftime(gap_date(r, dates)), dates)

\* the 'Exam Date' column after the loop body has run for row r
GapFillMove(r, dates) ==
    IF GapFillMoves(r, dates)
    THEN [dates EXCEPT ![r] = Strftime(gap_date(r, dates))]
    ELSE dates

\* variant: the count is incremented whenever a gap date was found
moves_made_per_gap(r, dates, n) ==
    IF IsDateStr(dates[r]) /\ gap_date(r, dates) # None THEN n + 1 ELSE n

\* moves_made after the loop body has run for row r: moves_made += 1 sits
\* next to the assignment
moves_made_after(r, dates, n) ==
    IF GapFillMoves(r, dates) THEN n + 1 ELSE n

\* start of the pass: normalise the dates, compute original_span
GapFillStart ==
    /\ pc = "gap_fill"
    /\ original_span' =
          SpanOf({normalize_date_to_ddmmyyyy(examDate[r]) : r \in AllDataRows}
                 \ {NoDateStr})
    /\ gap_work' = UncommonWork
    /\ gap_moves_made' = 0
    /\ loop_i' = 1
    /\ pre_gap' = examDate
    /\ pc' = "gap_loop"
    /\ UNCHANGED <<inputVars, runVars, path, examDate, timeSlot, unscheduled_units,
                   daily_scheduled_branch_sem, session_capacity, current_date,
                   scheduling_day, extended_day, exam_date, units_to_remove,
                   remaining_branch_sems, is_valid, violations, sem_dict,
                   oe_moves_made, pre_oe>>

\* one iteration of "for idx, row in uncommon.iterrows()"
GapFillRow ==
    /\ pc = "gap_loop"
    /\ loop_i <= Len(gap_work)
    /\ examDate' = GapFillMove(gap_work[loop_i], examDate)
    /\ gap_moves_made' = moves_made_after(gap_work[loop_i], examDate,
                                          gap_moves_made)
    /\ loop_i' = loop_i + 1
    /\ UNCHANGED <<inputVars, runVars, path, pc, timeSlot, unscheduled_units,
                   daily_scheduled_branch_sem, session_capacity, current_date,
                   scheduling_day, extended_day, exam_date, units_to_remove,
                   remaining_branch_sems, is_valid, violations, sem_dict, gap_work,
                   original_span, oe_moves_made, pre_gap, pre_oe>>

\* end of the pass: the dates of every frame are normalised again
GapFillEnd ==
    /\ pc = "gap_loop"
    /\ loop_i > Len(gap_work)
    /\ examDate' = [r \in DOMAIN examDate |->
                      IF r \in AllDataRows THEN normalize_date_to_ddmmyyyy(examDate[r])
                      ELSE examDate[r]]
    /\ pc' = "gap_done"
    /\ UNCHANGED <<inputVars, runVars, path, timeSlot, unscheduled_units,
                   daily_scheduled_branch_sem, session_capacity, current_date,
                   scheduling_day, extended_day, exam_date, loop_i, units_to_remove,
                   remaining_branch_sems, is_valid, violations, sem_dict, gap_work,
                   gap_moves_made, original_span, oe_moves_made, pre_gap, pre_oe>>

----------------------------------------------------------------------------
(* ElectiveRelocationOptimizer: optimize_oe_subjects_after_scheduling *)

oe_data == SelectSeq(AllData, HasOE)
oe1_oe5_data == SelectSeq(AllData, LAMBDA r : HasOE(r) /\ IsOE1OE5(r))
oe2_data == SelectSeq(AllData, LAMBDA r : HasOE(r) /\ IsOE2(r))

\* keys of exam_count_per_date
ExamDates(dates) == {dates[r] : r \in AllDataRows} \ {NoDateStr}

\* valid days between the first and the last exam date that carry no exam
completely_empty_days(dates) ==
    LET days == {Strptime(x) : x \in ExamDates(dates)}
    IN {d \in Min(days)..Max(days) :
           IsValidDay(d, holidays) /\ Strftime(d) \notin ExamDates(dates)}

\* variant: the scan accepts an empty day whatever the next valid day holds
OECandidates_single(dates) ==
    LET cur == Strptime(dates[oe1_oe5_data[1]])
    IN {e \in completely_empty_days(dates) : e < cur}

\* the empty days the scan accepts: earlier than the current OE1/OE5 date, the
\* next valid day empty as well; the scan stops at the first one
OECandidates(dates) ==
    LET cur == Strptime(dates[oe1_oe5_data[1]])
    IN {e \in completely_empty_days(dates) :
           /\ e < cur
           /\ find_next_valid_day_for_electives(e + 1, holidays)
                 \in completely_empty_days(dates)}

\* rows of the semester frame that the mask of row r selects:
\* same Subject and same Branch
MaskRows(r) ==
    {q \in SeqToSet(sem_dict[df[r].sem]) : df[q].mod = df[r].mod /\ df[q].br = df[r].br}

OE1Targets == UNION {MaskRows(r) : r \in SeqToSet(oe1_oe5_data)}

\* variant: the OE2 rows are left where they are
OE2Targets_none == {}

OE2Targets == UNION {MaskRows(r) : r \in SeqToSet(oe2_data)}

\* whether the pass relocates the electives
OEMoves(dates) ==
    /\ oe_data # <<>>
    /\ ExamDates(dates) # {}
    /\ completely_empty_days(dates) # {}
    /\ oe1_oe5_data # <<>>
    /\ OECandidates(dates) # {}

\* variant: the scan keeps the last candidate
last_oe1_oe5_date(dates) == Max(OECandidates(dates))

best_oe1_oe5_date(dates) == Min(OECandidates(dates))
best_oe2_date(dates) ==
    find_next_valid_day_for_electives(best_oe1_oe5_date(dates) + 1, holidays)

\* the result of the pass on the given columns: new columns and move count
optimize_oe_subjects_after_scheduling(dates, slots) ==
    LET norm == [r \in DOMAIN dates |->
                    IF r \in AllDataRows THEN normalize_date_to_ddmmyyyy(dates[r])
                    ELSE dates[r]]
    IN IF OEMoves(norm)
       THEN [dates |-> [r \in DOMAIN dates |->
                          IF r \in OE2Targets THEN Strftime(best_oe2_date(norm))
                          ELSE IF r \in OE1Targets THEN Strftime(best_oe1_oe5_date(norm))
                          ELSE norm[r]],
             slots |-> [r \in DOMAIN slots |->
                          IF r \in OE2Targets THEN Afternoon
                          ELSE IF r \in OE1Targets THEN Morning
                          ELSE slots[r]],
             moves |-> 1]
       ELSE [dates |-> IF oe_data # <<>> /\ ExamDates(norm) # {}
                          /\ completely_empty_days(norm) # {}
                       THEN norm ELSE dates,
             slots |-> slots, moves |-> 0]

\* the callers run the pass only when df_ele is not empty
OptimizeOE ==
    /\ pc = "gap_done"
    /\ EleRows # {}
    /\ pre_oe' = <<examDate, timeSlot>>
    /\ LET res == optimize_oe_subjects_after_scheduling(examDate, timeSlot)
       IN /\ examDate' = res.dates
          /\ timeSlot' = res.slots
          /\ oe_moves_made' = res.moves
    /\ pc' = "done"
    /\ UNCHANGED <<inputVars, runVars, path, unscheduled_units, daily_scheduled_branch_sem,
                   session_capacity, current_date, scheduling_day, extended_day,
                   exam_date, loop_i, units_to_remove, remaining_branch_sems,
                   is_valid, violations, sem_dict, gap_work, gap_moves_made,
                   original_span, pre_gap>>

\* no electives in the input: oe_moves_made stays 0
SkipOE ==
    /\ pc = "gap_done"
    /\ EleRows = {}
    /\ pc' = "done"
    /\ UNCHANGED <<inputVars, runVars, path, examDate, timeSlot, unscheduled_units,
                   daily_scheduled_branch_sem, session_capacity, current_date,
                   scheduling_day, extended_day, exam_date, loop_i, units_to_remove,
                   remaining_branch_sems, is_valid, violations, sem_dict, gap_work,
                   gap_moves_made, original_span, oe_moves_made, pre_gap, pre_oe>>

Next ==
    \/ configure_sidebar
    \/ AppReject
    \/ MainReject
    \/ EnterScheduler
    \/ MainLoopHead
    \/ PhaseAStep
    \/ PhaseAEnd
    \/ PhaseBStep
    \/ PhaseBEnd
    \/ MainDayEnd
    \/ ExtendedCheck
    \/ ExtLoopHead
    \/ ExtStep
    \/ ExtDayEnd
    \/ Validate
    \/ AppElectives
    \/ MainElectives
    \/ GapFillStart
    \/ GapFillRow
    \/ GapFillEnd
    \/ OptimizeOE
    \/ SkipOE

Spec == Init /\ [][Next]_vars

\* the steps of schedule_all_subjects_comprehensively after its set-up
SchedulerStep ==
    \/ MainLoopHead
    \/ PhaseAStep
    \/ PhaseAEnd
    \/ PhaseBStep
    \/ PhaseBEnd
    \/ MainDayEnd
    \/ ExtendedCheck
    \/ ExtLoopHead
    \/ ExtStep
    \/ ExtDayEnd

\* the scheduler is sequential code that runs to its return once called: a
\* step of it that can be taken is taken
FairSpec == Init /\ [][Next]_vars /\ WF_vars(SchedulerStep)

----------------------------------------------------------------------------
(* What the offerings of a schedule say, read from the columns alone *)

SchedulerPcs == {"main_loop", "phaseA", "phaseB", "day_end", "ext_check",
                 "ext_loop", "ext_pass", "returned"}

\* a unit is assigned when some member offering carries a real date
UnitAssigned(m) == \E r \in all_rows(m) : IsDateStr(examDate[r])
UnitDates(m) == {examDate[r] : r \in all_rows(m)} \ {NoDateStr}

\* the students of the eligible offerings stamped with a session
StudentsIn(ds, time_slot) ==
    SumOver([r \in Rows |-> df[r].cnt],
            {r \in EligibleRows : examDate[r] = ds /\ timeSlot[r] = time_slot})

\* the cohort keys of the eligible offerings stamped with a date
KeysOn(ds) == {BranchSem(r) : r \in {q \in EligibleRows : examDate[q] = ds}}

\* C1: while the primary scheduler runs (direct pass, gap-fill pass, extended
\* phase) and when it has returned, no two atomic units that share a cohort
\* key (branch, semester) are assigned to the same date.
C1_NoCohortDoubleBooking ==
    pc \in SchedulerPcs =>
        \A m1, m2 \in UnitCodes :
            (m1 # m2 /\ branch_sem_combinations(m1) \cap branch_sem_combinations(m2) # {})
                => UnitDates(m1) \cap UnitDates(m2) = {}

\* two units sharing a cohort key have both been assigned, one of them in the
\* extended phase
C1_Witness ==
    /\ pc = "returned"
    /\ extended_day > target_days
    /\ \E m1, m2 \in UnitCodes :
          /\ m1 # m2
          /\ branch_sem_combinations(m1) \cap branch_sem_combinations(m2) # {}
          /\ UnitAssigned(m1) /\ UnitAssigned(m2)
          /\ Cardinality(all_rows(m2)) > 1

\* C2: between the placements of the primary scheduler every atomic unit is
\* either wholly unassigned (no date, no slot on any member offering) or
\* wholly assigned (every member offering carries the same real date and the
\* same slot).
C2_UnitsWhole ==
    pc \in SchedulerPcs =>
        \A m \in UnitCodes :
            \/ \A r \in all_rows(m) : examDate[r] = NoDateStr /\ timeSlot[r] = NoSlot
            \/ \E ds \in UnitDates(m), sl \in {Morning, Afternoon} :
                  \A r \in all_rows(m) : examDate[r] = ds /\ timeSlot[r] = sl

\* a unit of two offerings has been placed while another unit is still queued
C2_Witness ==
    /\ pc \in {"phaseA", "ext_pass"}
    /\ unscheduled_units # <<>>
    /\ \E m \in UnitCodes : Cardinality(all_rows(m)) > 1 /\ UnitAssigned(m)
    /\ \E m \in UnitCodes : ~UnitAssigned(m)

\* the valid days the main phase can reach: the first target_days valid days
\* of the campaign range
MainPhaseDays ==
    {d \in base_date..end_date :
        /\ IsValidDay(d, holidays)
        /\ Cardinality({e \in base_date..d : IsValidDay(e, holidays)}) <= target_days}

\* C3 (as stated): in the final output every assigned unit with isCommon = true
\* has all its member offerings on exactly one (date, slot) pair.
C3_NoSplitCommonUnits ==
    pc = "done" =>
        \A m \in UnitCodes :
            (is_common(m) /\ UnitAssigned(m)) =>
                \E r \in all_rows(m) : \A q \in all_rows(m) :
                    examDate[q] = examDate[r] /\ timeSlot[q] = timeSlot[r]

\* C4: when the primary scheduler has returned, every session of a main-phase
\* day carries at most max_capacity students, summed over the offerings
\* assigned to it.
C4_MainPhaseCapacity ==
    pc = "returned" =>
        \A d \in MainPhaseDays : \A sl \in {Morning, Afternoon} :
            StudentsIn(Strftime(d), sl) <= max_capacity

\* a unit sits in the slot it does not prefer, next to a session that is full
C4_Witness ==
    /\ pc = "returned"
    /\ \E m \in UnitCodes : \E d \in MainPhaseDays :
          /\ \A r \in all_rows(m) :
                /\ examDate[r] = Strftime(d)
                /\ timeSlot[r] = alternate_slot(get_preferred_slot(preferred_semester_main(m)))
          /\ StudentsIn(Strftime(d), get_preferred_slot(preferred_semester_main(m)))
                = max_capacity
          /\ StudentsIn(Strftime(d), Morning) + StudentsIn(Strftime(d), Afternoon)
                > max_capacity

\* C5: the primary scheduler always halts: the main loop runs at most
\* target_days day iterations, the extended loop stops at extended_limit, and
\* every run that enters the scheduler reaches its return.
C5_SchedulerHalts ==
    /\ [](scheduling_day <= target_days /\ extended_day <= extended_limit)
    /\ (pc \in SchedulerPcs) ~> (pc = "returned")

\* the extended day budget is spent while a unit is still queued
C5_Witness ==
    /\ pc = "returned"
    /\ extended_day = extended_limit
    /\ unscheduled_units # <<>>

\* C6 (as stated): when the primary scheduler has returned, every member
\* offering of every still-queued unit carries the marker "Out of Range".
C6_QueuedMarkedOutOfRange ==
    pc = "returned" =>
        \A i \in 1..Len(unscheduled_units) :
            \A r \in all_rows(unscheduled_units[i]) : examDate[r] = OutOfRangeStr

\* the dates the frames of sem_dict carry
FrameDates == {examDate[r] : r \in AllDataRows} \ {NoDateStr}

\* C7: when the gap-fill pass has ended, the overall date span (last date -
\* first date + 1) is at most the span measured before the pass.
C7_GapFillSpan ==
    pc = "gap_done" => SpanOf(FrameDates) <= original_span

\* the pass has moved offerings and the span has shrunk
C7_Witness ==
    /\ pc = "gap_done"
    /\ gap_moves_made > 0
    /\ SpanOf(FrameDates) < original_span

\* the elective offerings of the output, by track
ScheduledOE1OE5 == {r \in AllDataRows : HasOE(r) /\ IsOE1OE5(r)}
ScheduledOE2 == {r \in AllDataRows : HasOE(r) /\ IsOE2(r)}

\* C8 (as stated): in the output of the full pipeline, when OE1/OE5 and OE2
\* offerings are both scheduled, all OE1/OE5 offerings share one date, all OE2
\* offerings share one date, and the OE2 date is the nearest valid day strictly
\* after the OE1/OE5 date.
C8_ElectiveAdjacency ==
    (pc = "done" /\ ScheduledOE1OE5 # {} /\ ScheduledOE2 # {}) =>
        \E r1 \in ScheduledOE1OE5, r2 \in ScheduledOE2 :
            /\ \A q \in ScheduledOE1OE5 : examDate[q] = examDate[r1]
            /\ \A q \in ScheduledOE2 : examDate[q] = examDate[r2]
            /\ Strptime(examDate[r2]) =
                  find_next_valid_day_for_electives(Strptime(examDate[r1]) + 1, holidays)

\* C9: a second run of the elective relocation pass on the output of the first
\* returns move count 0 and changes no date and no slot.
C9_RelocationIdempotent ==
    (pc = "done" /\ pre_oe # EmptyMap) =>
        LET again == optimize_oe_subjects_after_scheduling(examDate, timeSlot)
        IN /\ again.moves = 0
           /\ again.dates = examDate
           /\ again.slots = timeSlot

\* the first run has relocated the electives, with more than one empty day to
\* choose from
C9_Witness ==
    /\ pc = "done"
    /\ pre_oe # EmptyMap
    /\ oe_moves_made = 1
    /\ examDate # pre_oe[1]
    /\ Cardinality(OECandidates(pre_oe[1])) > 1

\* the unit a pass of the scheduler looks at, and the semester its slot follows
UnitAtHand == unscheduled_units[loop_i]
SlotOfPass(m) ==
    IF pc = "phaseA" THEN get_preferred_slot(preferred_semester_main(m))
    ELSE get_preferred_slot(preferred_semester_first(m))

\* a session total as the tracker reports it, 0 for a date it has no entry for
TrackedTotal(sc, ds, time_slot) ==
    IF ds \in DOMAIN sc THEN sc[ds][session_type(time_slot)] ELSE 0

Admits(time_slot, m) == StudentsIn(DateStr, time_slot) + total_students(m) <= max_capacity

\* C10: a step of the direct pass or of the extended pass that looks at a
\* conflict-free unit places it in its preferred slot when that session admits
\* its students, else in the other slot when that one admits them, else leaves
\* the unit unplaced and queued with the cohort-usage set and every session
\* total unchanged.
C10_SlotChoice ==
    [][(pc \in {"phaseA", "ext_pass"} /\ loop_i <= Len(unscheduled_units)
          /\ branch_sem_combinations(UnitAtHand) \cap KeysOn(DateStr) = {})
       => LET m == UnitAtHand
              pref == SlotOfPass(m)
          IN IF Admits(pref, m)
             THEN \A r \in all_rows(m) : examDate'[r] = DateStr /\ timeSlot'[r] = pref
             ELSE IF Admits(alternate_slot(pref), m)
             THEN \A r \in all_rows(m) :
                      examDate'[r] = DateStr /\ timeSlot'[r] = alternate_slot(pref)
             ELSE /\ examDate' = examDate /\ timeSlot' = timeSlot
                  /\ unscheduled_units' = unscheduled_units
                  /\ units_to_remove' = units_to_remove
                  /\ daily_scheduled_branch_sem' = daily_scheduled_branch_sem
                  /\ \A d \in base_date..end_date : \A sl \in {Morning, Afternoon} :
                        TrackedTotal(session_capacity', Strftime(d), sl)
                           = TrackedTotal(session_capacity, Strftime(d), sl)]_vars

\* a unit that fits under the ceiling on its own has just been passed over on
\* a day that has none of its cohorts, both sessions being too full for it,
\* after another unit went to the slot it does not prefer
C10_Witness ==
    /\ pc \in {"phaseA", "ext_pass"}
    /\ loop_i > 1 /\ loop_i - 1 <= Len(unscheduled_units)
    /\ LET m == unscheduled_units[loop_i - 1]
       IN /\ ~UnitAssigned(m)
          /\ branch_sem_combinations(m) \cap KeysOn(DateStr) = {}
          /\ total_students(m) <= max_capacity
          /\ ~Admits(Morning, m) /\ ~Admits(Afternoon, m)
    /\ \E n \in UnitCodes : \A r \in all_rows(n) :
          /\ examDate[r] = DateStr
          /\ timeSlot[r] = alternate_slot(get_preferred_slot(preferred_semester_main(n)))

----------------------------------------------------------------------------
(* What the calendar and the elective step are measured against *)

\* a window after day d that always holds a valid day: of any 8 + h consecutive
\* days at most two are Sundays and at most h are holidays
Horizon(d) == d + 8 + Cardinality(holidays)

\* the nearest valid day strictly after day d, found by inspection of the days
NearestValidAfter(d) == Min({x \in (d + 1)..Horizon(d) : IsValidDay(x, holidays)})

\* schedule_electives_globally has just been called: main.py calls it whenever
\* electives and a dated non-elective exist, app.py only when day 2 is within
\* the end date
ElectivesInvoked ==
    /\ pc = "gap_fill"
    /\ EleRows # {}
    /\ DatedNonElec # {}
    /\ \/ path = "main"
       \/ path = "app" /\
          NearestValidAfter(NearestValidAfter(max_non_elec_date)) <= end_date

\* C11: once the elective scheduler has run, every OE1/OE5 offering carries
\* the nearest valid day strictly after the latest non-elective date and the
\* morning slot, and every OE2 offering carries the nearest valid day strictly
\* after that day and the afternoon slot, whatever the session totals are.
C11_ElectiveStamping ==
    ElectivesInvoked =>
        LET day1 == NearestValidAfter(max_non_elec_date)
            day2 == NearestValidAfter(day1)
        IN \A r \in EleRows :
              /\ IsOE1OE5(r) => examDate[r] = Strftime(day1) /\ timeSlot[r] = Morning
              /\ IsOE2(r) => examDate[r] = Strftime(day2) /\ timeSlot[r] = Afternoon

\* electives stamped after a skipped day, the morning session of day 1 above
\* the ceiling
C11_Witness ==
    /\ ElectivesInvoked
    /\ \E r \in EleRows : IsOE2(r)
    /\ NearestValidAfter(max_non_elec_date) > max_non_elec_date + 1
    /\ SumOver([r \in Rows |-> df[r].cnt], {r \in EleRows : IsOE1OE5(r)}) > max_capacity
    /\ \A r \in EleRows : IsOE1OE5(r) => timeSlot[r] = Morning

\* C12: when elective day 2 falls after the campaign end date, the elective
\* step leaves every elective offering without date and slot, on the app.py
\* path and on the main.py path alike.
C12_DayTwoBeyondEnd ==
    (/\ pc = "gap_fill"
     /\ EleRows # {}
     /\ DatedNonElec # {}
     /\ NearestValidAfter(NearestValidAfter(max_non_elec_date)) > end_date)
        => \A r \in EleRows : examDate[r] = NoDateStr /\ timeSlot[r] = NoSlot

----------------------------------------------------------------------------
(* What the gap-fill pass is measured against *)

\* rows of a unit the pass may move: dated, of a unit that is not common and
\* serves one (branch, semester) pair
GapEligible(r) ==
    /\ r \in EligibleRows
    /\ IsDateStr(pre_gap[r])
    /\ frequency(df[r].mod) = 1
    /\ ~is_common(df[r].mod)

\* the other rows of the output that belong to the row's (branch, semester)
CohortRows(r) == {q \in AllDataRows \ {r} : BranchSem(q) = BranchSem(r)}

\* valid days of the campaign before the row's date at the start of the pass on
\* which its cohort has no exam
FreeEarlierDays(r) ==
    {d \in base_date..(Strptime(pre_gap[r]) - 1) :
        /\ IsValidDay(d, holidays)
        /\ \A q \in CohortRows(r) : examDate[q] # Strftime(d)}

\* the row the loop has just dealt with
GapRowDone == gap_work[loop_i - 1]

\* C13: whenever a valid day before an eligible row's date is free for its
\* cohort, the pass has moved the row to the earliest such day.
C13_EarliestFreeDay ==
    (pc = "gap_loop" /\ loop_i > 1) =>
        ((GapEligible(GapRowDone) /\ FreeEarlierDays(GapRowDone) # {}) =>
            examDate[GapRowDone] = Strftime(Min(FreeEarlierDays(GapRowDone))))

\* C14: the gap-fill pass changes the date only of rows of dated, non-common
\* units that serve one (branch, semester) pair; no row of a unit serving
\* several pairs and no elective row has another date after the pass.
C14_GapFillFrame ==
    pc = "gap_done" =>
        \A r \in Rows : examDate[r] # pre_gap[r] => GapEligible(r)

----------------------------------------------------------------------------
(* What the elective relocation pass is measured against *)

\* the pass has run on the columns kept in pre_oe
RelocationRan == pc = "done" /\ pre_oe # EmptyMap

\* days of the output at the start of the pass
DaysBefore == {Strptime(pre_oe[1][r]) : r \in AllDataRows}

\* valid days from the first to the last exam date on which no offering sits
IdleDays ==
    {d \in Min(DaysBefore)..Max(DaysBefore) :
        IsValidDay(d, holidays) /\ d \notin DaysBefore}

\* the date of the first OE1/OE5 row: the current elective day 1
CurrentElectiveDay1 == Strptime(pre_oe[1][oe1_oe5_data[1]])

\* first days of the pairs (d1, d2) of idle days, d2 the next valid day after
\* d1 and d1 before the current elective day 1
IdlePairs ==
    {d \in IdleDays : d < CurrentElectiveDay1 /\ NearestValidAfter(d) \in IdleDays}

\* C15: when a pair of idle days (d1, d2) exists before the current elective
\* day 1 inside the span of the schedule, the relocation pass puts every
\* OE1/OE5 offering on d1 and every OE2 offering on d2 of the earliest pair.
C15_RelocationToEarliestPair ==
    (RelocationRan /\ oe1_oe5_data # <<>> /\ IdlePairs # {}) =>
        \A r \in AllDataRows :
            /\ (HasOE(r) /\ IsOE1OE5(r)) => examDate[r] = Strftime(Min(IdlePairs))
            /\ (HasOE(r) /\ IsOE2(r)) =>
                  examDate[r] = Strftime(NearestValidAfter(Min(IdlePairs)))

\* a relocation with two pairs to choose from, OE2 offerings included
C15_Witness ==
    /\ RelocationRan
    /\ oe1_oe5_data # <<>>
    /\ oe2_data # <<>>
    /\ Cardinality(IdlePairs) > 1
    /\ examDate[oe1_oe5_data[1]] # pre_oe[1][oe1_oe5_data[1]]
    /\ examDate[oe2_data[1]] # pre_oe[1][oe2_data[1]]

\* C16: the relocation pass leaves date and slot of every offering without an
\* elective track as they were, and when no pair of idle days lies before the
\* current elective day 1 it reports 0 moves and leaves the elective offerings
\* as they were too.
C16_RelocationFrame ==
    RelocationRan =>
        /\ \A r \in Rows :
              ~HasOE(r) => examDate[r] = pre_oe[1][r] /\ timeSlot[r] = pre_oe[2][r]
        /\ (oe1_oe5_data = <<>> \/ IdlePairs = {}) =>
              /\ oe_moves_made = 0
              /\ \A r \in Rows :
                    HasOE(r) => examDate[r] = pre_oe[1][r] /\ timeSlot[r] = pre_oe[2][r]

\* a pass over a schedule with an idle day before the electives, but no pair
C16_Witness ==
    /\ RelocationRan
    /\ oe1_oe5_data # <<>>
    /\ oe2_data # <<>>
    /\ \E d \in IdleDays : d < CurrentElectiveDay1
    /\ IdlePairs = {}
    /\ \E r \in AllDataRows : ~HasOE(r)
    /\ oe_moves_made = 0

----------------------------------------------------------------------------
(* The capacity validator on its own: any frame of dated, undated and
   'Out of Range' offerings *)

MaxValidatorRows == 4

ValidatorRows ==
    [i \in 1..MaxValidatorRows |->
        Row(40 + i, "A", 1, IF i = 1 THEN 3 ELSE 2, "COMP", "", FALSE, "NO")]

ValidatorDates == {NoDateStr, OutOfRangeStr, Strftime(1), Strftime(2)}

InitValidator ==
    /\ df = ValidatorRows
    /\ \E c \in LongCampaigns :
          /\ base_date = c.base
          /\ end_date = c.end
          /\ holidays = c.hol
          /\ max_capacity = c.max
    /\ examDate \in [1..MaxValidatorRows -> ValidatorDates]
    /\ timeSlot \in [1..MaxValidatorRows -> {Morning, Afternoon}]
    /\ path = "none"
    /\ pc = "returned"
    /\ unscheduled_units = <<>>
    /\ daily_scheduled_branch_sem = EmptyMap
    /\ session_capacity = EmptyMap
    /\ current_date = None
    /\ scheduling_day = 0
    /\ extended_day = 0
    /\ exam_date = None
    /\ loop_i = 0
    /\ units_to_remove = <<>>
    /\ remaining_branch_sems = {}
    /\ is_valid = TRUE
    /\ violations = {}
    /\ sem_dict = EmptyMap
    /\ gap_work = <<>>
    /\ gap_moves_made = 0
    /\ original_span = 0
    /\ oe_moves_made = 0
    /\ pre_gap = EmptyMap
    /\ pre_oe = EmptyMap
    /\ run = 1
    /\ first_run = <<>>

ValidatorSpec == InitValidator /\ [][Validate]_vars

\* students of the rows of the validated frame that carry the date and slot
FrameStudents(ds, time_slot) ==
    SumOver([r \in Rows |-> df[r].cnt],
            {r \in NonElecRows : examDate[r] = ds /\ timeSlot[r] = time_slot})

\* the sessions of the validated frame: (date, slot) of the rows whose date is
\* neither empty nor 'Out of Range'
FrameSessions ==
    {<<examDate[r], timeSlot[r]>> :
        r \in {q \in NonElecRows : examDate[q] \notin {NoDateStr, OutOfRangeStr}}}

\* the report is right: one record per session above the ceiling and none
\* else, each with the session's excess, and valid exactly when there is none
ReportIsExact(valid, report) ==
    /\ \A ses \in FrameSessions :
          FrameStudents(ses[1], ses[2]) > max_capacity =>
              Cardinality({v \in report : v.date = ses[1] /\ v.time_slot = ses[2]}) = 1
    /\ \A v \in report :
          /\ <<v.date, v.time_slot>> \in FrameSessions
          /\ FrameStudents(v.date, v.time_slot) > max_capacity
          /\ v.excess = FrameStudents(v.date, v.time_slot) - max_capacity
    /\ valid = (report = {})

\* C17: the validator leaves every offering as it is and reports exactly one
\* record for each session whose students exceed the ceiling, with excess =
\* students - ceiling; rows with an empty or 'Out of Range' date are ignored
\* and the result is valid exactly when nothing is reported.
C17_ValidatorReport ==
    [][(pc = "returned" /\ pc' = "electives") =>
          /\ df' = df
          /\ examDate' = examDate
          /\ timeSlot' = timeSlot
          /\ ReportIsExact(is_valid', violations')]_vars

\* a report with a session above the ceiling, a session exactly at the ceiling
\* that is not reported, and rows without a date of either kind
C17_Witness ==
    /\ pc = "electives"
    /\ violations # {}
    /\ ~is_valid
    /\ \E ses \in FrameSessions : FrameStudents(ses[1], ses[2]) = max_capacity
    /\ \E r \in NonElecRows : examDate[r] = OutOfRangeStr
    /\ \E r \in NonElecRows : examDate[r] = NoDateStr

----------------------------------------------------------------------------
(* The calendar queries on their own: any start, end and holiday set *)

MaxCalDay == 9
MaxHolidays == 3

InitCalendar ==
    /\ base_date \in 1..MaxCalDay
    /\ end_date \in 1..MaxCalDay
    /\ holidays \in {H \in SUBSET (1..MaxCalDay) : Cardinality(H) <= MaxHolidays}
    /\ max_capacity = 2
    /\ df = <<>>
    /\ examDate = <<>>
    /\ timeSlot = <<>>
    /\ path = "none"
    /\ pc = "query"
    /\ unscheduled_units = <<>>
    /\ daily_scheduled_branch_sem = EmptyMap
    /\ session_capacity = EmptyMap
    /\ current_date = None
    /\ scheduling_day = 0
    /\ extended_day = 0
    /\ exam_date = None
    /\ loop_i = 0
    /\ units_to_remove = <<>>
    /\ remaining_branch_sems = {}
    /\ is_valid = TRUE
    /\ violations = {}
    /\ sem_dict = EmptyMap
    /\ gap_work = <<>>
    /\ gap_moves_made = 0
    /\ original_span = 0
    /\ oe_moves_made = 0
    /\ pre_gap = EmptyMap
    /\ pre_oe = EmptyMap
    /\ run = 1
    /\ first_run = <<>>

\* both queries asked with start base_date, the bounded one with end end_date
CalendarQuery ==
    /\ pc = "query"
    /\ exam_date' = find_next_valid_day_in_range(base_date, end_date, holidays)
    /\ current_date' = find_next_valid_day_for_electives(base_date, holidays)
    /\ pc' = "answered"
    /\ UNCHANGED <<inputVars, runVars, path, examDate, timeSlot, unscheduled_units,
                   daily_scheduled_branch_sem, session_capacity, scheduling_day,
                   extended_day, loop_i, units_to_remove, remaining_branch_sems,
                   is_valid, violations, sem_dict, gap_work, gap_moves_made,
                   original_span, oe_moves_made, pre_gap, pre_oe>>

CalendarSpec == InitCalendar /\ [][CalendarQuery]_vars

\* days from a to b that are neither a Sunday nor a holiday
WorkingDays(a, b) == {d \in a..b : weekday(d) # Sunday /\ d \notin holidays}

\* C18: the bounded query from X to E answers the least day of X..E that is
\* neither a Sunday nor a holiday and answers none exactly when there is no
\* such day; the unbounded query answers the least such day from X on.
C18_CalendarQueries ==
    pc = "answered" =>
        /\ WorkingDays(base_date, end_date) # {} =>
              exam_date = Min(WorkingDays(base_date, end_date))
        /\ (exam_date = None) = (WorkingDays(base_date, end_date) = {})
        /\ current_date = Min(WorkingDays(base_date, Horizon(base_date)))

\* a bounded query that finds no day in a non-empty range holding a Sunday and
\* a holiday, while the unbounded query goes on to the next working day
C18_Witness ==
    /\ pc = "answered"
    /\ base_date < end_date
    /\ \E d \in base_date..end_date : weekday(d) = Sunday
    /\ \E d \in base_date..end_date : d \in holidays /\ weekday(d) # Sunday
    /\ exam_date = None
    /\ current_date > end_date

----------------------------------------------------------------------------
(* A campaign that starts on a Saturday *)

SaturdayStart == weekday(base_date) = Sunday - 1 /\ holidays = {}

\* C19 (as stated): with the start on a Saturday and no holidays, the first
\* candidate day of the scheduler is the Monday after the first Sunday.
C19_FirstDayIsMonday ==
    (SaturdayStart /\ scheduling_day = 1) => exam_date = base_date + 2

\* C19 (as the code has it): with the start on a Saturday and no holidays,
\* the first candidate day of the scheduler is the Saturday itself; the Sunday
\* is skipped and the second candidate day is the Monday.
C19_SaturdayThenMonday ==
    SaturdayStart =>
        /\ scheduling_day = 1 => exam_date = base_date
        /\ scheduling_day = 2 => exam_date = base_date + 2

\* the second day of such a campaign, offerings sitting on the Saturday
C19_Witness ==
    /\ SaturdayStart
    /\ scheduling_day = 2
    /\ weekday(exam_date) = 0
    /\ \E r \in EligibleRows : examDate[r] = Strftime(base_date)

\* C20: right after the elective step, every elective offering that carries a
\* date lies strictly after the date of every dated non-elective offering.
C20_ElectivesAfterNonElectives ==
    pc = "gap_fill" =>
        \A r \in EleRows, q \in DatedNonElec :
            IsDateStr(examDate[r]) => Strptime(examDate[r]) > Strptime(examDate[q])

\* electives of both days stamped behind non-electives that span several days,
\* day 1 being the day after the last of them
C20_Witness ==
    /\ ElectivesInvoked
    /\ \E r \in EleRows : IsOE1OE5(r) /\ Strptime(examDate[r]) = max_non_elec_date + 1
    /\ \E r \in EleRows : IsOE2(r) /\ IsDateStr(examDate[r])
    /\ Cardinality({examDate[q] : q \in DatedNonElec}) > 1

----------------------------------------------------------------------------
(* Two runs of the pipeline on the same input *)

MaxRowsTwoRuns == 2

\* the inputs run twice: the short catalogue sub-lists and the crowded, spread
\* and tight uploads
InitTwoRuns ==
    /\ Init
    /\ \/ Len(df) <= MaxRowsTwoRuns
       \/ \E r \in 1..Len(df) : df[r].mod > 10

\* the pipeline has ended, with a timetable or with an error
Ended == pc \in {"done", "error"}

\* the first run has ended: keep its outcome and start again from the same
\* offering records, dates, holidays and ceiling
RunAgain ==
    /\ run = 1
    /\ Ended
    /\ run' = 2
    /\ first_run' = [path |-> path, end |-> end_date, pc |-> pc,
                     dates |-> examDate, slots |-> timeSlot]
    /\ path' = "none"
    /\ pc' = "idle"
    /\ examDate' = [r \in 1..Len(df) |-> NoDateStr]
    /\ timeSlot' = [r \in 1..Len(df) |-> NoSlot]
    /\ unscheduled_units' = <<>>
    /\ daily_scheduled_branch_sem' = EmptyMap
    /\ session_capacity' = EmptyMap
    /\ current_date' = None
    /\ scheduling_day' = 0
    /\ extended_day' = 0
    /\ exam_date' = None
    /\ loop_i' = 0
    /\ units_to_remove' = <<>>
    /\ remaining_branch_sems' = {}
    /\ is_valid' = TRUE
    /\ violations' = {}
    /\ sem_dict' = EmptyMap
    /\ gap_work' = <<>>
    /\ gap_moves_made' = 0
    /\ original_span' = 0
    /\ oe_moves_made' = 0
    /\ pre_gap' = EmptyMap
    /\ pre_oe' = EmptyMap
    /\ UNCHANGED inputVars

TwoRunNext == Next \/ RunAgain

TwoRunSpec == InitTwoRuns /\ [][TwoRunNext]_vars

\* the second run has ended, driven by the same caller and with the end date
\* the first run ended with (app.py may have corrected it)
SameRunEnded ==
    run = 2 /\ Ended /\ path = first_run.path /\ end_date = first_run.end

----------------------------------------------------------------------------
(* What the queue is measured against *)

\* the offerings of a unit and their distinct (branch, semester) pairs
Offerings(m) == {r \in EligibleRows : df[r].mod = m}
PairsOf(m) == {<<df[r].br, df[r].sem>> : r \in Offerings(m)}

\* the flags of a unit are those of its first offering
FlaggedAcross(m) == df[Min(Offerings(m))].cas
FlaggedWithin(m) == df[Min(Offerings(m))].ic = "YES"

\* the score as the formula gives it
FormulaScore(m) ==
    Cardinality(PairsOf(m)) * 10
    + (IF FlaggedAcross(m) THEN 50
       ELSE IF FlaggedWithin(m) THEN 25
       ELSE IF Cardinality(PairsOf(m)) > 1 THEN 15 ELSE 0)
    + (IF Cardinality({df[r].sem : r \in Offerings(m)}) > 1 THEN 15 ELSE 0)
    + (IF Cardinality({df[r].br : r \in Offerings(m)}) > 1 THEN 10 ELSE 0)

BandOf(m) ==
    IF FlaggedAcross(m) \/ Cardinality(PairsOf(m)) >= 8 THEN 1
    ELSE IF FlaggedWithin(m) THEN 2
    ELSE IF Cardinality(PairsOf(m)) >= 2 THEN 3
    ELSE 4

\* the scheduler has just built its queue
QueueBuilt == pc = "main_loop" /\ scheduling_day = 0

----------------------------------------------------------------------------
(* Where the scheduler puts its dates *)

\* positions of the main phase
MainPcs == {"main_loop", "phaseA", "phaseB", "day_end"}

\* which valid day on or after the campaign start a day is: 1 for the first
ValidDayIndex(d) ==
    Cardinality({x \in base_date..d : weekday(x) # Sunday /\ x \notin holidays})

C25_Irrevocable ==
    [][(pc \in SchedulerPcs /\ pc' \in SchedulerPcs) =>
          /\ \A r \in Rows :
                IsDateStr(examDate[r]) =>
                    examDate'[r] = examDate[r] /\ timeSlot'[r] = timeSlot[r]
          /\ SeqToSet(unscheduled_units') \subseteq SeqToSet(unscheduled_units)
          /\ current_date' >= current_date
          /\ exam_date' # exam_date => exam_date' > exam_date]_vars

\* the extended phase at work after a main phase that placed units on several
\* days, by the direct pass and in both slots
C25_Witness ==
    /\ pc = "ext_pass"
    /\ extended_day > target_days
    /\ Cardinality({examDate[r] : r \in EligibleRows} \ {NoDateStr}) > 2
    /\ \E r \in EligibleRows : timeSlot[r] = Morning
    /\ \E r \in EligibleRows : timeSlot[r] = Afternoon
    /\ Len(unscheduled_units) > 0

----------------------------------------------------------------------------
(* What the two optimizers leave behind *)

\* C26: an offering that carries a date when the gap-fill pass starts carries
\* a date (not empty, not 'Out of Range') during and after the pass, and an
\* offering that carries a date when the relocation pass starts carries one
\* after it.
C26_OptimizersKeepDates ==
    /\ (pc \in {"gap_loop", "gap_done", "done"} /\ pre_gap # EmptyMap) =>
          \A r \in Rows : IsDateStr(pre_gap[r]) => IsDateStr(examDate[r])
    /\ (pc = "done" /\ pre_oe # EmptyMap) =>
          \A r \in Rows : IsDateStr(pre_oe[1][r]) => IsDateStr(examDate[r])

\* both passes have moved offerings
C26_Witness ==
    /\ pc = "done"
    /\ pre_oe # EmptyMap
    /\ gap_moves_made > 0
    /\ oe_moves_made > 0
    /\ \E r \in Rows : IsDateStr(pre_gap[r]) /\ pre_oe[1][r] # pre_gap[r]
    /\ \E r \in Rows : IsDateStr(pre_oe[1][r]) /\ examDate[r] # pre_oe[1][r]


----------------------------------------------------------------------------
(* C27: frame of the gap-fill pass *)

GapPcs == {"gap_fill", "gap_loop"}

MovedByGapFill == {r \in DOMAIN examDate : examDate[r] # pre_gap[r]}

\* what one step taken inside the gap-fill pass does
GapFillStepEffect ==
    pc \in GapPcs =>
       /\ timeSlot' = timeSlot
       /\ \A r \in DOMAIN examDate :
             examDate'[r] # examDate[r] =>
                /\ IsDateStr(examDate[r])
                /\ IsDateStr(examDate'[r])
                /\ IsValidDay(Strptime(examDate'[r]), holidays)
                /\ Strptime(examDate'[r]) < Strptime(examDate[r])
                /\ Strptime(examDate'[r]) >= base_date
       /\ pc' = "gap_done" =>
             gap_moves_made' =
                Cardinality({r \in DOMAIN examDate' : examDate'[r] # pre_gap'[r]})

\* C27: every step of the gap-fill pass leaves the slot of every offering as
\* it is; an offering whose date the step changes gets a valid day that is
\* strictly earlier than its old date and not before the campaign start date;
\* and when the pass returns, the move count equals the number of offerings
\* whose date differs from the one they had when the pass began.
C27_GapFillEffect == [][GapFillStepEffect]_vars

\* the pass has returned having moved two offerings, left a dated offering
\* where it was, and found the earlier day of another offering taken
C27_Witness ==
    /\ pc = "gap_done"
    /\ gap_moves_made >= 2
    /\ Cardinality(MovedByGapFill) = gap_moves_made
    /\ \E r \in SeqToSet(gap_work) :
          /\ IsDateStr(pre_gap[r])
          /\ examDate[r] = pre_gap[r]
          /\ gap_date(r, pre_gap) # None

----------------------------------------------------------------------------
(* C28: the gap-fill pass and the session ceiling *)

\* the sessions above the ceiling under a given 'Exam Date' column
OverCeiling(dates) ==
    {ses \in SessionsOf(AllDataRows, dates, timeSlot) :
        SessionTotal(AllDataRows, dates, timeSlot, ses) > max_capacity}

\* C28: when the gap-fill pass returns, if no session was above the ceiling
\* with the dates the pass was given, no session is above the ceiling with the
\* dates it returns.
C28_GapFillKeepsCeiling ==
    (pc = "gap_done" /\ OverCeiling(pre_gap) = {}) => OverCeiling(examDate) = {}

----------------------------------------------------------------------------
(* C29: get_preferred_slot as a function of the semester number *)

MaxSemester == 12
MaxSessionTotal == 2

\* one offering of semester s, asked about on some day with some students
\* already seated in the two sessions of that day
InitSlot ==
    /\ base_date = 1
    /\ end_date = 36
    /\ holidays = {}
    /\ max_capacity = MaxSessionTotal
    /\ \E s \in 1..MaxSemester : df = <<Row(1, "A", s, 1, "COMP", "", FALSE, "NO")>>
    /\ examDate = <<NoDateStr>>
    /\ timeSlot = <<NoSlot>>
    /\ path = "none"
    /\ pc = "slot_query"
    /\ unscheduled_units = <<>>
    /\ daily_scheduled_branch_sem = EmptyMap
    /\ current_date \in 1..MaxCalDay
    /\ \E a \in 0..MaxSessionTotal, b \in 0..MaxSessionTotal :
          session_capacity = (Strftime(current_date) :> [morning |-> a, afternoon |-> b])
    /\ scheduling_day = 0
    /\ extended_day = 0
    /\ exam_date = None
    /\ loop_i = 0
    /\ units_to_remove = <<>>
    /\ remaining_branch_sems = {}
    /\ is_valid = TRUE
    /\ violations = {}
    /\ sem_dict = EmptyMap
    /\ gap_work = <<>>
    /\ gap_moves_made = 0
    /\ original_span = 0
    /\ oe_moves_made = 0
    /\ pre_gap = EmptyMap
    /\ pre_oe = EmptyMap
    /\ run = 1
    /\ first_run = <<>>

\* preferred_slot = get_preferred_slot(preferred_semester)
PreferredSlotQuery ==
    /\ pc = "slot_query"
    /\ timeSlot' = [r \in DOMAIN df |-> get_preferred_slot(df[r].sem)]
    /\ pc' = "slot_answered"
    /\ UNCHANGED <<inputVars, runVars, path, examDate, unscheduled_units,
                   daily_scheduled_branch_sem, session_capacity, current_date,
                   scheduling_day, extended_day, exam_date, loop_i, units_to_remove,
                   remaining_branch_sems, is_valid, violations, sem_dict, gap_work,
                   gap_moves_made, original_span, oe_moves_made, pre_gap, pre_oe>>

SlotSpec == InitSlot /\ [][PreferredSlotQuery]_vars

\* the least k with 2k >= s
CeilHalf(s) == CHOOSE k \in 0..s : 2 * k >= s /\ 2 * (k - 1) < s

\* C29: for a semester number s >= 1 the preferred slot is the morning slot
\* when ceil(s/2) is odd and the afternoon slot otherwise, whatever the day
\* asked about and whatever the totals of that day's sessions.
C29_PreferredSlot ==
    pc = "slot_answered" =>
       \A r \in DOMAIN df :
          timeSlot[r] = IF CeilHalf(df[r].sem) % 2 = 1 THEN Morning ELSE Afternoon

\* semester 7 (ceil(7/2) = 4) answered afternoon on a Saturday whose afternoon
\* session is full and whose morning session is empty
C29_Witness ==
    /\ pc = "slot_answered"
    /\ df[1].sem = 7
    /\ timeSlot[1] = Afternoon
    /\ current_date = 6
    /\ session_capacity[Strftime(6)] = [morning |-> 0, afternoon |-> MaxSessionTotal]

----------------------------------------------------------------------------
(* C30: the placement rule of the extended phase against the direct pass *)

\* the slot the direct pass gives unit m on the day at hand, NoSlot when it
\* does not place it
direct_pass_slot(m) ==
    IF Conflicts(m, daily_scheduled_branch_sem[DateStr]) THEN NoSlot
    ELSE SlotUnderCapacity(session_capacity, DateStr,
                           get_preferred_slot(preferred_semester_main(m)),
                           total_students(m))

\* the slot the extended phase gives unit m on the day at hand, NoSlot when it
\* does not place it
extended_pass_slot(m) ==
    IF Conflicts(m, daily_scheduled_branch_sem[DateStr]) THEN NoSlot
    ELSE SlotUnderCapacity(session_capacity, DateStr,
                           get_preferred_slot(preferred_semester_first(m)),
                           total_students(m))

\* C30: whenever the extended phase looks at a queued unit, it places the unit
\* exactly when the direct pass would place it on the same day with the same
\* cohort-usage set and session totals, and in the same slot.
C30_ExtendedAsDirect ==
    (pc = "ext_pass" /\ loop_i <= Len(unscheduled_units)) =>
        extended_pass_slot(UnitAtHand) = direct_pass_slot(UnitAtHand)

----------------------------------------------------------------------------
(* C31: the unit-level common flags *)

\* some member offering of the unit carries the flag
AnyAcross(m) == \E r \in Offerings(m) : df[r].cas
AnyWithin(m) == \E r \in Offerings(m) : df[r].ic = "YES"

\* the part of the score that the flags decide
ScoreBonus(m) ==
    priority_score(m) - frequency(m) * 10
    - (IF cross_semester_span(m) THEN 15 ELSE 0)
    - (IF cross_branch_span(m) THEN 10 ELSE 0)

\* C31: a unit is common exactly when some member offering is flagged common
\* across semesters, or some member offering is flagged common within its
\* semester, or the unit serves more than one (branch, semester) pair; and the
\* same two flags of the unit decide its score bonus (50 / 25 / 15 / 0) and
\* its band (very high / high / medium / low).
C31_UnitFlags ==
    \A m \in UnitCodes :
       /\ is_common(m) = (AnyAcross(m) \/ AnyWithin(m) \/ Cardinality(PairsOf(m)) > 1)
       /\ ScoreBonus(m) = (IF AnyAcross(m) THEN 50
                           ELSE IF AnyWithin(m) THEN 25
                           ELSE IF Cardinality(PairsOf(m)) > 1 THEN 15 ELSE 0)
       /\ InVeryHigh(m) = (AnyAcross(m) \/ Cardinality(PairsOf(m)) >= 8)
       /\ InHigh(m) = (AnyWithin(m) /\ ~InVeryHigh(m))

----------------------------------------------------------------------------
(* C32: the optimizers and double booking *)

\* under a given 'Exam Date' column no (branch, semester, date) carries
\* offerings of two different non-elective units
NoDoubleBooking(dates) ==
    \A r, q \in EligibleRows :
       (/\ IsDateStr(dates[r])
        /\ dates[r] = dates[q]
        /\ df[r].br = df[q].br
        /\ df[r].sem = df[q].sem) => df[r].mod = df[q].mod

\* C32: if no (branch, semester, date) carried two non-elective units when the
\* gap-fill pass began, none does after any of its moves, when it returns, or
\* after the elective relocation pass.
C32_OptimizersKeepBooking ==
    (pc \in {"gap_loop", "gap_done", "done"} /\ pre_gap # EmptyMap
        /\ NoDoubleBooking(pre_gap)) => NoDoubleBooking(examDate)

\* both passes have run and both have moved offerings: the gap-fill pass two
\* non-elective offerings one after the other, the relocation pass electives
C32_Witness ==
    /\ pc = "done"
    /\ pre_gap # EmptyMap
    /\ NoDoubleBooking(pre_gap)
    /\ oe_moves_made > 0
    /\ Cardinality({r \in EligibleRows : examDate[r] # pre_gap[r]}) >= 2

----------------------------------------------------------------------------
(* C33: the ceiling in the extended phase and the validator's verdict *)

\* C33: while the scheduler runs and when it has returned no session holds
\* more students than the ceiling, sessions filled in the extended phase
\* included, and the validator applied to the scheduler's output reports the
\* schedule valid with no violation.
C33_SchedulerOutputValid ==
    /\ pc \in SchedulerPcs =>
          validate_capacity_constraints(NonElecRows, examDate, timeSlot,
                                        max_capacity) = {}
    /\ pc = "electives" => (is_valid /\ violations = {})

\* the validator has passed a schedule in which a unit placed in the extended
\* phase (after the 15th valid day) fills its session exactly to the ceiling
C33_Witness ==
    /\ pc = "electives"
    /\ is_valid
    /\ extended_day > target_days
    /\ \E r \in EligibleRows :
          /\ IsDateStr(examDate[r])
          /\ ValidDayIndex(Strptime(examDate[r])) > target_days
          /\ StudentsIn(examDate[r], timeSlot[r]) = max_capacity

----------------------------------------------------------------------------
(* C34: the gap-fill pass of the main phase *)

\* the queued units the pass would consider: one cohort, unused today
GapCandidates ==
    {m \in SeqToSet(unscheduled_units) :
        frequency(m) = 1 /\ branch_sem_combinations(m) \subseteq remaining_branch_sems}

\* C34: throughout the gap-fill pass of a main-phase day nothing has been
\* placed by it, and every queued single-cohort unit whose cohort is unused
\* that day is admitted by neither session.
C34_MainGapFillPlacesNothing ==
    pc = "phaseB" =>
        /\ units_to_remove = <<>>
        /\ \A m \in GapCandidates :
              /\ ~can_fit_in_session(session_capacity, DateStr, Morning,
                                     total_students(m))
              /\ ~can_fit_in_session(session_capacity, DateStr, Afternoon,
                                     total_students(m))

\* the pass has gone through a queue holding two candidates that the direct
\* pass refused for capacity although their students are within the ceiling
C34_Witness ==
    /\ pc = "phaseB"
    /\ loop_i > Len(unscheduled_units)
    /\ Cardinality(GapCandidates) >= 2
    /\ \A m \in GapCandidates : total_students(m) <= max_capacity

----------------------------------------------------------------------------
(* C35: why a unit stays queued after the direct pass *)

\* the unit at queue position j has been placed on the day at hand
PlacedToday(j) ==
    \A r \in all_rows(unscheduled_units[j]) : examDate[r] = DateStr

\* an earlier unit of the queue, placed today, shares a cohort key with m
BlockedByEarlier(m) ==
    \E j \in 1..(loop_i - 1) :
       /\ PlacedToday(j)
       /\ branch_sem_combinations(unscheduled_units[j])
             \cap branch_sem_combinations(m) # {}

\* a step of the direct pass that looks at a unit and leaves it queued
LeftQueued ==
    /\ pc = "phaseA"
    /\ loop_i <= Len(unscheduled_units)
    /\ examDate' = examDate

\* C35: whenever the direct pass looks at a unit and leaves it queued, either
\* a unit that precedes it in the queue and was placed earlier in the same
\* pass shares one of its cohort keys, or neither session of the day admits
\* its students; no unit behind it in the queue plays a part.
C35_QueuedForACause ==
    [][LeftQueued =>
          \/ BlockedByEarlier(UnitAtHand)
          \/ (~Admits(Morning, UnitAtHand) /\ ~Admits(Afternoon, UnitAtHand))]_vars

\* the direct pass of a day has ended leaving one unit queued behind a placed
\* unit of its cohort and another, of an unused cohort, refused by both sessions
C35_Witness ==
    /\ pc = "phaseA"
    /\ loop_i > Len(unscheduled_units)
    /\ \E i \in 1..Len(unscheduled_units) :
          /\ ~PlacedToday(i)
          /\ \E j \in 1..(i - 1) :
                /\ PlacedToday(j)
                /\ branch_sem_combinations(unscheduled_units[j])
                      \cap branch_sem_combinations(unscheduled_units[i]) # {}
    /\ \E i \in 1..Len(unscheduled_units) :
          /\ ~PlacedToday(i)
          /\ branch_sem_combinations(unscheduled_units[i])
                \cap daily_scheduled_branch_sem[DateStr] = {}
          /\ ~Admits(Morning, unscheduled_units[i])
          /\ ~Admits(Afternoon, unscheduled_units[i])

----------------------------------------------------------------------------
(* C36: the first assigned date of the primary schedule *)

\* the offerings the scheduler has dated
Assigned == {r \in EligibleRows : IsDateStr(examDate[r])}

\* C36: as soon as the scheduler has assigned anything, some offering is on
\* the first valid day on or after the campaign start date and no offering is
\* on an earlier day.
C36_FirstDayUsed ==
    (pc \in SchedulerPcs /\ Assigned # {}) =>
        /\ WorkingDays(base_date, end_date) # {}
        /\ \E r \in Assigned :
              Strptime(examDate[r]) = Min(WorkingDays(base_date, end_date))
        /\ \A r \in Assigned :
              Strptime(examDate[r]) >= Min(WorkingDays(base_date, end_date))

\* the scheduler has returned a schedule over several days for a campaign
\* whose start date is a Sunday followed by a holiday
C36_Witness ==
    /\ pc = "returned"
    /\ ~IsValidDay(base_date, holidays)
    /\ ~IsValidDay(base_date + 1, holidays)
    /\ \E r \in Assigned : Strptime(examDate[r]) = base_date + 2
    /\ \E r \in Assigned : Strptime(examDate[r]) > base_date + 2

----------------------------------------------------------------------------
(* C37: units above the ceiling *)

OverCeilingUnits == {m \in UnitCodes : total_students(m) > max_capacity}

\* a step of one of the three passes that looks at a unit above the ceiling
LooksAtOverCeiling ==
    /\ pc \in {"phaseA", "phaseB", "ext_pass"}
    /\ loop_i <= Len(unscheduled_units)
    /\ UnitAtHand \in OverCeilingUnits

\* what the scheduler's steps do about units above the ceiling
OverCeilingEffect ==
    /\ pc \in SchedulerPcs =>
          \A m \in OverCeilingUnits :
             \A r \in all_rows(m) : examDate'[r] = NoDateStr /\ timeSlot'[r] = NoSlot
    /\ LooksAtOverCeiling =>
          /\ daily_scheduled_branch_sem' = daily_scheduled_branch_sem
          /\ unscheduled_units' = unscheduled_units
          /\ \A ds \in DOMAIN session_capacity' :
                /\ TrackedTotal(session_capacity', ds, Morning) =
                      TrackedTotal(session_capacity, ds, Morning)
                /\ TrackedTotal(session_capacity', ds, Afternoon) =
                      TrackedTotal(session_capacity, ds, Afternoon)

\* C37: no step of the scheduler, in the main or the extended phase, dates an
\* offering of a unit whose student total exceeds the ceiling; and a step that
\* looks at such a unit marks no cohort key used and leaves every session
\* total as it was.
C37_OverCeilingNeverPlaced == [][OverCeilingEffect]_vars

\* the scheduler has returned after the main and the extended phase with a
\* unit above the ceiling still queued, while an offering of one of that
\* unit's cohorts sits on the first day of the campaign
C37_Witness ==
    /\ pc = "returned"
    /\ extended_day > target_days
    /\ \E m \in OverCeilingUnits :
          /\ m \in SeqToSet(unscheduled_units)
          /\ \E r \in Assigned :
                /\ BranchSem(r) \in branch_sem_combinations(m)
                /\ Strptime(examDate[r]) = Min(WorkingDays(base_date, end_date))

----------------------------------------------------------------------------
(* C38: every assigned date is a valid calendar day *)

\* C38: in every state of the pipeline every date an offering carries is
\* neither a Sunday nor a holiday.
C38_DatesAreValidDays ==
    \A r \in DOMAIN examDate :
        IsDateStr(examDate[r]) =>
            /\ weekday(Strptime(examDate[r])) # Sunday
            /\ Strptime(examDate[r]) \notin holidays

\* the pipeline has finished with electives scheduled and both optimizers
\* having moved offerings, the dates lying on both sides of a Sunday and of a
\* holiday
C38_Witness ==
    /\ pc = "done"
    /\ gap_moves_made > 0
    /\ oe_moves_made > 0
    /\ \E r \in EleRows : IsDateStr(examDate[r])
    /\ \E r, q \in Rows, d \in holidays, u \in 1..36 :
          /\ IsDateStr(examDate[r]) /\ IsDateStr(examDate[q])
          /\ weekday(u) = Sunday
          /\ Strptime(examDate[r]) < d /\ d < Strptime(examDate[q])
          /\ Strptime(examDate[r]) < u /\ u < Strptime(examDate[q])

----------------------------------------------------------------------------
(* C39: the scheduler's bookkeeping between day iterations *)

BetweenDays == pc \in {"main_loop", "ext_check", "ext_loop", "returned"}

\* the units with an offering on date string ds
UnitsOn(ds) == {df[r].mod : r \in {q \in EligibleRows : examDate[q] = ds}}

AssignedDates == {examDate[r] : r \in Assigned}

\* C39: between two day iterations of the scheduler, the tracker's total of
\* every (date, slot) is the sum of the students of the offerings assigned to
\* it, the cohort-usage set of every date is the union of the cohort keys of
\* the units assigned to that date, and the queue holds exactly the units that
\* have no assignment.
C39_Bookkeeping ==
    BetweenDays =>
        /\ AssignedDates \subseteq DOMAIN session_capacity
        /\ \A ds \in DOMAIN session_capacity :
              /\ session_capacity[ds].morning = StudentsIn(ds, Morning)
              /\ session_capacity[ds].afternoon = StudentsIn(ds, Afternoon)
        /\ AssignedDates \subseteq DOMAIN daily_scheduled_branch_sem
        /\ \A ds \in DOMAIN daily_scheduled_branch_sem :
              daily_scheduled_branch_sem[ds] =
                 UNION {branch_sem_combinations(m) : m \in UnitsOn(ds)}
        /\ \A m \in UnitCodes :
              (m \in SeqToSet(unscheduled_units))
                 = (\A r \in all_rows(m) : ~IsDateStr(examDate[r]))

\* the scheduler is between two days of the extended phase with a session
\* holding two units of different cohorts, a day used by a unit of two cohorts,
\* and a unit still queued
C39_Witness ==
    /\ pc = "ext_loop"
    /\ extended_day > target_days
    /\ unscheduled_units # <<>>
    /\ \E ds \in DOMAIN session_capacity :
          \E r, q \in EligibleRows :
             /\ examDate[r] = ds /\ examDate[q] = ds
             /\ timeSlot[r] = timeSlot[q]
             /\ df[r].mod # df[q].mod
    /\ \E ds \in DOMAIN daily_scheduled_branch_sem :
          \E m \in UnitsOn(ds) : frequency(m) > 1

========================================================================
